---- MODULE Spec2Model ----
(***************************************************************************)
(* A model of iobench (src/src/main.cpp): the controller's partition of    *)
(* the file-index set among workers, the Worker class (Start, Stop, Loop)  *)
(* run by a controller thread and one execution thread per worker, the     *)
(* Pacemaker class (IsDue, Pause, Resume, Reset, SetTargetFPS) under a     *)
(* running clock and under concurrent callers, the host monitors           *)
(* DisksIOInfo and CPUUsageInfo, and main from the parsed options through  *)
(* the start of the workers and the report rows to its return.             *)
(***************************************************************************)
EXTENDS Integers, Sequences, FiniteSets, TLC

\* ------------------------------------------------------------------ bounds
\* Largest number of paths in an input or output list.
MaxFiles == 3
\* Largest value of --jobs.
MaxJobs == 3
\* Largest file-index set in the specification of one Worker.
MaxLen == 2
\* Most execution threads Start() may launch for one worker.
MaxThreads == 2
\* Largest value of --jobs in the specification of main's monitoring loop.
MaxWorkers == 2

\* Latest reading of the clock, in units of 250 ms.
MaxTime == 6
\* Most true results of IsDue() on one Pacemaker.
MaxTrues == 3
\* Most threads calling IsDue() on one Pacemaker at a time.
MaxCallers == 2
\* Largest sectors-read counter in /proc/diskstats.
MaxSectors == 2
\* Most lines written to std::cerr.
MaxLines == 3
\* Largest value of a counter of times(), in clock ticks.
MaxTicks == 2

\* size_t arithmetic wraps modulo a power of two.  The program's size_t has
\* 64 bits; the model keeps the wrap-around with a modulus its integers hold.
SizeModulus == 1073741824

VARIABLES
  infilenames,     \* static std::vector<std::string> infilenames
  outfilenames,    \* static std::vector<std::string> outfilenames
  randomize,       \* options.get("randomize")
  workload_split,  \* options["workload-split"]
  mode,            \* options["mode"]
  num_workers,     \* main: num_workers
  file_indices,    \* main: file_indices
  workers,         \* main: std::vector<Worker> workers
  i,               \* main: loop counter of the worker-creation loops
  slice_point_a,   \* main: slice_point_a of the latest iteration
  slice_point_b,   \* main: slice_point_b of the latest iteration
  pc,              \* position of the controller thread
  cw,              \* the worker the controller is operating on
  acc,             \* per worker: accesses to its fields not ordered by thread creation or join
  hist             \* per worker: the calls made on it so far (threads launched,
                   \* whether Stop() was called, the status and thread state at the
                   \* latest Stop() call, the latest call, m_done when Stop() returned)

VARIABLES
  cout,            \* main: the lines written to std::cout after the table header
  pacemaker,       \* a Pacemaker::Pacemaker object (main: print_timer)
  now,             \* std::chrono::steady_clock::now(), in units of ClockUnit
  obs              \* the calls made on the Pacemaker so far (construction time,
                   \* whether Pause, Reset or SetTargetFPS was ever called, the
                   \* number of true results, the result and the time of the
                   \* latest IsDue(), the time of the latest true result and the
                   \* number of true results at that time, the beat state at
                   \* the latest Pause())

VARIABLES
  lock,            \* Pacemaker: m_IsDue__LOCK, the thread that holds it (0: none)
  callers          \* per thread calling IsDue() on the shared Pacemaker: the
                   \* statement it executes next and its locals now, difference

VARIABLES
  options,         \* main: options["infiles"] and options["outfiles"], the
                   \* list files the command line names
  host,            \* the machine of main's run: the states its statistics
                   \* source can be found in, the user times its process can show
  disks_info,      \* a DisksIOInfo object (main: disks_info)
  diskstats,       \* /proc/diskstats and /sys/block as the latest init() or
                   \* update() found them
  cpu_info,        \* a CPUUsageInfo object (main: cpu_info)
  times,           \* what times() returned to the latest call
  cerr,            \* the lines written to std::cerr
  row              \* main: the locals of the latest report row

timerVars == <<pacemaker, now, obs>>

callVars == <<lock, callers>>

hostVars == <<options, host, disks_info, diskstats, cpu_info, times, cerr, row>>

programVarsButPc == <<infilenames, outfilenames, randomize, workload_split,
                      mode, num_workers, file_indices, workers, i,
                      slice_point_a, slice_point_b, cw, acc, hist, cout,
                      callVars, hostVars>>

programVars == <<infilenames, outfilenames, randomize, workload_split, mode,
                 num_workers, file_indices, workers, i, slice_point_a,
                 slice_point_b, pc, cw, acc, hist, cout, callVars, hostVars>>

\* What a call of IsDue() from one of several threads leaves alone besides
\* the Pacemaker and the clock.
programVarsButCalls == <<infilenames, outfilenames, randomize, workload_split,
                         mode, num_workers, file_indices, workers, i,
                         slice_point_a, slice_point_b, pc, cw, acc, hist, cout,
                         hostVars>>

vars == <<infilenames, outfilenames, randomize, workload_split, mode, num_workers,
          file_indices, workers, i, slice_point_a, slice_point_b, pc, cw,
          acc, hist, cout, timerVars, callVars, hostVars>>

mainVars == <<infilenames, outfilenames, randomize, workload_split, mode,
              num_workers, file_indices, i, slice_point_a, slice_point_b,
              cout, timerVars, callVars, hostVars>>

\* ------------------------------------------------------------------ helpers
Max(x, y) == IF x >= y THEN x ELSE y

Range(s) == {s[k] : k \in 1..Len(s)}

\* All orders std::shuffle can leave a vector in.
Shuffles(s) ==
  {[k \in 1..Len(s) |-> s[p[k]]] : p \in Permutations(1..Len(s))}

\* How often x occurs in s.
Count(s, x) == Cardinality({k \in 1..Len(s) : s[k] = x})

\* The indices 0..n-1 in order, as the generation loop pushes them.
Iota(n) == [k \in 1..n |-> k - 1]

\* A list of n paths.
Paths(n) == [k \in 1..n |-> k]

\* A size_t value used as an iterator offset (difference_type is signed).
ToDiff(x) == IF x >= SizeModulus \div 2 THEN x - SizeModulus ELSE x

\* ------------------------------------------------------------------ Worker
\* The choices of --mode.
Modes == {"read", "write", "readwrite"}

\* Worker::Worker(const std::vector<int>&); thread/loc/it are the state of
\* m_thread_ptr and of the execution thread running Loop(); samples counts
\* the AddSample calls and out_opens the output paths opened for writing.
Worker(indices) ==
  [m_indices |-> indices, m_status |-> "INIT", m_workmode |-> "ONLY_READ",
   m_done |-> 0,
   thread |-> "null", loc |-> "none", it |-> 1, samples |-> 0, out_opens |-> 0]

\* Worker::Worker(Worker&&): indices, status and done count are carried over.
\* m_workmode has no initializer and is not assigned: its value is
\* indeterminate (no statement of the program reads it).
MoveWorker(rhs) ==
  [m_indices |-> rhs.m_indices, m_status |-> rhs.m_status,
   m_workmode |-> "indeterminate",
   m_done |-> rhs.m_done,
   thread |-> "null", loc |-> "none", it |-> 1, samples |-> 0, out_opens |-> 0]

\* ------------------------------------------------------------------ Pacemaker
\* The model's clock counts units of 250 ms (250000000 ns): times and
\* durations are whole numbers of units.

\* (long)1e12, the dividend of SetTargetFPS, in units of the clock: the
\* quotient by (long)(1e3*fps) is then the beat in units of the clock.
E12 == 4000

\* The target_fps values given to the constructor and to SetTargetFPS, in
\* beats per second: always-on, always-off, a beat of 4 units, a beat of 2.
TargetFPS == {-1, 0, 1, 2}

\* What m_ns_per_beat can hold before a positive target_fps assigns it: the
\* member has no initializer.
IndeterminateBeats == {0, 3}

\* main has not parsed its file lists in this run, and no host monitor is
\* constructed.
HostNotConstructed ==
  /\ options = <<>>
  /\ host = <<>>
  /\ disks_info = <<>>
  /\ diskstats = <<>>
  /\ cpu_info = <<>>
  /\ times = <<>>
  /\ cerr = <<>>
  /\ row = <<>>

\* No Pacemaker is constructed yet.
TimerNotConstructed ==
  /\ pacemaker = <<>>
  /\ now = 0
  /\ obs = <<>>
  /\ lock = 0
  /\ callers = <<>>

\* NanosecondsBetween(end, start): duration_cast<TIME_RESOLUTION_T>(end - start)
NanosecondsBetween(end, start) == end - start

\* TIME_RESOLUTION_T((long)1e12 / (long)(1e3 * m_target_fps))
NsPerBeat(fps) == E12 \div (1000 * fps)

\* Pacemaker::SetTargetFPS
SetTargetFPS(p, new_target_fps) ==
  [p EXCEPT !.m_target_fps = new_target_fps,
            !.m_ns_per_beat = IF new_target_fps > 0
                                THEN NsPerBeat(new_target_fps) ELSE @]

\* Pacemaker::Pacemaker(target_fps, accumulate_unfetched_ticks), run at time
\* t; garbage is what the unassigned m_ns_per_beat holds.
Pacemaker(target_fps, accumulate_unfetched_ticks, t, garbage) ==
  SetTargetFPS([m_current_stage |-> "Running",
                m_accumulated_unfetched_ticks |-> accumulate_unfetched_ticks,
                m_time_of_last_beat |-> t,
                m_target_fps |-> target_fps,
                m_ns_per_beat |-> garbage],
               target_fps)

\* Mutant of IsDueEarly: the sign of the target frequency is looked at
\* before the stage.
IsDueEarlyStageLast(p) ==
  IF p.m_target_fps = 0 THEN "false"
  ELSE IF p.m_target_fps < 0 THEN "true"
  ELSE IF p.m_current_stage = "Paused" THEN "false"
  ELSE "lock"

\* Mutant of IsDueEarly: a target frequency of 0 is always-on as well.
IsDueEarlyZeroOn(p) ==
  IF p.m_current_stage = "Paused" THEN "false"
  ELSE IF p.m_target_fps <= 0 THEN "true"
  ELSE "lock"

\* The checks of IsDue() that come before the lock: an answer, or "lock"
\* when the call goes on to the clock.
IsDueEarly(p) ==
  IF p.m_current_stage = "Paused" THEN "false"
  ELSE IF p.m_target_fps = 0 THEN "false"
  ELSE IF p.m_target_fps < 0 THEN "true"
  ELSE "lock"

\* Mutant of NextBeat: the last beat is set to the time of the call.
NextBeatIsNow(p, difference) == p.m_time_of_last_beat + difference

\* Mutant of NextBeat: the last beat moves on by one beat in both policies.
NextBeatOneStep(p, difference) == p.m_time_of_last_beat + p.m_ns_per_beat

\* Mutant of NextBeat: without accumulation the last beat goes to the grid
\* point after the call.
NextBeatAhead(p, difference) ==
  IF p.m_accumulated_unfetched_ticks
    THEN p.m_time_of_last_beat + p.m_ns_per_beat
    ELSE p.m_time_of_last_beat
           + (difference \div p.m_ns_per_beat + 1) * p.m_ns_per_beat

\* IsDue(), a beat being due: m_time_of_last_beat += m_ns_per_beat, or
\* += (difference / m_ns_per_beat) * m_ns_per_beat.
NextBeat(p, difference) ==
  IF p.m_accumulated_unfetched_ticks
    THEN p.m_time_of_last_beat + p.m_ns_per_beat
    ELSE p.m_time_of_last_beat
           + (difference \div p.m_ns_per_beat) * p.m_ns_per_beat

\* The part of IsDue() under the lock, with the clock reading t.
IsDueLocked(p, t) ==
  LET difference == NanosecondsBetween(t, p.m_time_of_last_beat)
  IN  IF difference < p.m_ns_per_beat
        THEN [due |-> FALSE, p |-> p]
        ELSE [due |-> TRUE,
              p |-> [p EXCEPT !.m_time_of_last_beat = NextBeat(p, difference)]]

\* Pacemaker::IsDue() called at time t: the answer and the object after it.
IsDue(p, t) ==
  IF IsDueEarly(p) = "lock" THEN IsDueLocked(p, t)
  ELSE [due |-> IsDueEarly(p) = "true", p |-> p]

\* Mutant of Pause: pausing also takes the last beat out of the past.
PauseForgets(p) ==
  [p EXCEPT !.m_current_stage = "Paused",
            !.m_time_of_last_beat = @ + p.m_ns_per_beat]

\* Pacemaker::Pause
Pause(p) == [p EXCEPT !.m_current_stage = "Paused"]

\* Pacemaker::Resume
Resume(p) == [p EXCEPT !.m_current_stage = "Running"]

\* Pacemaker::Reset, run at time t
Reset(p, t) == [p EXCEPT !.m_time_of_last_beat = t]

\* Time passes.
Tick ==
  /\ now < MaxTime
  /\ now' = now + 1
  /\ UNCHANGED <<pacemaker, obs, programVars>>

\* A call of IsDue().  obs.frozen holds the beat state of the latest
\* Pause() until a Reset, a SetTargetFPS or an IsDue() of the running
\* Pacemaker.
CallIsDue ==
  /\ LET r == IsDue(pacemaker, now)
     IN  /\ r.due => obs.trues < MaxTrues
         /\ pacemaker' = r.p
         /\ obs' = [obs EXCEPT !.result = IF r.due THEN "true" ELSE "false",
                               !.polled_at = now,
                               !.trues = IF r.due THEN @ + 1 ELSE @,
                               !.true_at = IF r.due THEN now ELSE @,
                               !.run = IF ~r.due THEN @
                                       ELSE IF obs.trues > 0 /\ obs.true_at = now
                                         THEN @ + 1 ELSE 1,
                               !.frozen =
                                  IF pacemaker.m_current_stage = "Running"
                                    THEN <<>> ELSE @]
  /\ UNCHANGED <<now, programVars>>

CallPause ==
  /\ pacemaker' = Pause(pacemaker)
  /\ obs' = [obs EXCEPT !.clean = FALSE,
                        !.frozen = <<pacemaker.m_time_of_last_beat,
                                     pacemaker.m_ns_per_beat>>]
  /\ UNCHANGED <<now, programVars>>

CallResume ==
  /\ pacemaker' = Resume(pacemaker)
  /\ obs' = obs
  /\ UNCHANGED <<now, programVars>>

CallReset ==
  /\ pacemaker' = Reset(pacemaker, now)
  /\ obs' = [obs EXCEPT !.clean = FALSE, !.frozen = <<>>]
  /\ UNCHANGED <<now, programVars>>

CallSetTargetFPS(new_target_fps) ==
  /\ pacemaker' = SetTargetFPS(pacemaker, new_target_fps)
  /\ obs' = [obs EXCEPT !.clean = FALSE, !.frozen = <<>>]
  /\ UNCHANGED <<now, programVars>>

\* A Pacemaker constructed at time 0 or 1, outside any run of main.
PacemakerInit ==
  /\ \E f \in TargetFPS, a \in BOOLEAN, g \in IndeterminateBeats, t \in 0..1 :
       /\ now = t
       /\ pacemaker = Pacemaker(f, a, t, g)
       /\ obs = [t0 |-> t, clean |-> TRUE, trues |-> 0, result |-> "none",
                 polled_at |-> t, true_at |-> t, run |-> 0, frozen |-> <<>>]
  /\ infilenames = <<>>
  /\ outfilenames = <<>>
  /\ randomize = FALSE
  /\ workload_split = "separate"
  /\ mode = "read"
  /\ num_workers = 1
  /\ file_indices = <<>>
  /\ workers = <<>>
  /\ i = 0
  /\ slice_point_a = 0
  /\ slice_point_b = 0
  /\ pc = "idle"
  /\ cw = 0
  /\ acc = <<>>
  /\ hist = <<>>
  /\ cout = <<>>
  /\ lock = 0
  /\ callers = <<>>
  /\ HostNotConstructed

PacemakerNext ==
  \/ Tick
  \/ CallIsDue
  \/ CallPause
  \/ CallResume
  \/ CallReset
  \/ \E f \in TargetFPS : CallSetTargetFPS(f)

PacemakerSpec == PacemakerInit /\ [][PacemakerNext]_vars

\* ------------------------------------------------------------------ Pacemaker, concurrent callers
\* THREAD_SAFE is defined: IsDue() holds m_IsDue__LOCK from the end of its
\* early checks to its return.  Each of the MaxCallers threads calls IsDue()
\* again and again; callers[c].loc is the statement thread c executes next:
\* "idle" (outside IsDue), "lock" (the lock_guard), "now" (Now()),
\* "difference" (NanosecondsBetween(now, m_time_of_last_beat)), "decide"
\* (the comparison, the advance of the last beat, the return).

\* Mutant of TryLock: the mutex excludes nobody.
TryLockBarging(l) == TRUE

\* std::lock_guard<std::mutex> lock(m_IsDue__LOCK) goes on when no thread
\* holds the mutex, and blocks otherwise.
TryLock(l) == l = 0

\* A thread outside IsDue().
NotCalling == [loc |-> "idle", now |-> 0, difference |-> 0]

\* Thread c calls IsDue(): the checks before the lock.
IsDueEnter(c) ==
  /\ callers[c].loc = "idle"
  /\ LET e == IsDueEarly(pacemaker)
     IN  /\ e = "true" => obs.trues < MaxTrues
         /\ callers' = [callers EXCEPT ![c].loc = IF e = "lock" THEN "lock" ELSE "idle"]
         /\ obs' = [obs EXCEPT !.trues = IF e = "true" THEN @ + 1 ELSE @]
  /\ UNCHANGED <<pacemaker, now, lock, programVarsButCalls>>

\* Thread c gets the mutex.
IsDueAcquire(c) ==
  /\ callers[c].loc = "lock"
  /\ TryLock(lock)
  /\ lock' = c
  /\ callers' = [callers EXCEPT ![c].loc = "now"]
  /\ UNCHANGED <<pacemaker, now, obs, programVarsButCalls>>

\* const TIME_POINT_T now = Now()
IsDueNow(c) ==
  /\ callers[c].loc = "now"
  /\ callers' = [callers EXCEPT ![c].loc = "difference", ![c].now = now]
  /\ UNCHANGED <<pacemaker, now, obs, lock, programVarsButCalls>>

\* const TIME_RESOLUTION_T difference = NanosecondsBetween(now, m_time_of_last_beat)
IsDueDifference(c) ==
  /\ callers[c].loc = "difference"
  /\ callers' = [callers EXCEPT
                   ![c].loc = "decide",
                   ![c].difference =
                      NanosecondsBetween(callers[c].now,
                                         pacemaker.m_time_of_last_beat)]
  /\ UNCHANGED <<pacemaker, now, obs, lock, programVarsButCalls>>

\* if (difference < m_ns_per_beat) return false; else the last beat is
\* advanced and true is returned.  The lock_guard releases the mutex.
IsDueDecide(c) ==
  /\ callers[c].loc = "decide"
  /\ IF callers[c].difference < pacemaker.m_ns_per_beat
       THEN UNCHANGED <<pacemaker, obs>>
       ELSE /\ pacemaker' = [pacemaker EXCEPT !.m_time_of_last_beat =
                               NextBeat(pacemaker, callers[c].difference)]
            /\ obs' = [obs EXCEPT !.trues = @ + 1]
  /\ lock' = 0
  /\ callers' = [callers EXCEPT ![c] = NotCalling]
  /\ UNCHANGED <<now, programVarsButCalls>>

\* One Pacemaker constructed at time 0 or 1 and shared by MaxCallers threads.
ConcurrentInit ==
  /\ \E f \in TargetFPS, a \in BOOLEAN, g \in IndeterminateBeats, t \in 0..1 :
       /\ now = t
       /\ pacemaker = Pacemaker(f, a, t, g)
       /\ obs = [t0 |-> t, clean |-> TRUE, trues |-> 0, result |-> "none",
                 polled_at |-> t, true_at |-> t, run |-> 0, frozen |-> <<>>]
  /\ lock = 0
  /\ callers = [c \in 1..MaxCallers |-> NotCalling]
  /\ infilenames = <<>>
  /\ outfilenames = <<>>
  /\ randomize = FALSE
  /\ workload_split = "separate"
  /\ mode = "read"
  /\ num_workers = 1
  /\ file_indices = <<>>
  /\ workers = <<>>
  /\ i = 0
  /\ slice_point_a = 0
  /\ slice_point_b = 0
  /\ pc = "idle"
  /\ cw = 0
  /\ acc = <<>>
  /\ hist = <<>>
  /\ cout = <<>>
  /\ HostNotConstructed

ConcurrentNext ==
  \/ Tick
  \/ \E c \in 1..MaxCallers : IsDueEnter(c)
  \/ \E c \in 1..MaxCallers : IsDueAcquire(c)
  \/ \E c \in 1..MaxCallers : IsDueNow(c)
  \/ \E c \in 1..MaxCallers : IsDueDifference(c)
  \/ \E c \in 1..MaxCallers : IsDueDecide(c)

ConcurrentSpec == ConcurrentInit /\ [][ConcurrentNext]_vars

\* ------------------------------------------------------------------ DisksIOInfo
\* /proc/diskstats as one init() or update() finds it: it cannot be opened,
\* or it holds one line per block device, each ended by a newline, with the
\* name in the third field and the sectors read in the sixth.  The kernel
\* lists the devices in one order: FileOrder.
DeviceNames == {"sda", "sda1", "sdb", "loop0"}

FileOrder == <<"sda", "sda1", "sdb", "loop0">>

\* std::strncmp(disk_name.c_str(), "loop", std::strlen("loop")) == 0
HasLoopPrefix(disk_name) == disk_name \in {"loop0"}

\* /sys/block/<name>/queue/hw_sector_size: the file exists for disks, not
\* for partitions; its content is the bytes per sector.
HwSectorSize == [n \in {"sda", "sdb", "loop0"} |->
                   IF n = "sdb" THEN 4096 ELSE 512]

\* The counters the lines can show: a partition is listed with its disk,
\* the partition and the loop device have read nothing, the second disk has
\* read nothing or MaxSectors sectors.
Readings ==
  {f \in UNION {[D -> 0..MaxSectors] : D \in SUBSET DeviceNames} :
     /\ "sda1" \in DOMAIN f <=> "sda" \in DOMAIN f
     /\ \A n \in DOMAIN f : n \in {"sda1", "loop0"} => f[n] = 0
     /\ "sdb" \in DOMAIN f => f["sdb"] \in {0, MaxSectors}}

\* The states of the statistics source.
Sources ==
  {[open |-> FALSE, stats |-> <<>>]} \cup {[open |-> TRUE, stats |-> f] : f \in Readings}

\* The lines of a readable source, in the order of the file.
Lines(src) ==
  LET present == SelectSeq(FileOrder, LAMBDA n : n \in DOMAIN src.stats)
  IN  [k \in 1..Len(present) |->
         [disk_name |-> present[k], sectors_read |-> src.stats[present[k]]]]

\* size_t subtraction and multiplication (the product is computed on the
\* representatives of least magnitude, which the model's integers hold).
SizeSub(a, b) == (a - b) % SizeModulus

SizeMul(a, b) == (ToDiff(a) * ToDiff(b)) % SizeModulus

\* Disk{disk_name, sectors_read, 0, bytes_per_sector}
Disk(name, current, last, bps) ==
  [name |-> name, current_sectors_read |-> current, last_sectors_read |-> last,
   bytes_per_sector |-> bps]

\* The body of init()'s read loop over the lines from position k on.
RECURSIVE InitLines(_, _, _)
InitLines(lines, k, disks) ==
  IF k > Len(lines) THEN disks
  ELSE LET l == lines[k]
       IN  IF HasLoopPrefix(l.disk_name) THEN InitLines(lines, k + 1, disks)
           ELSE IF l.disk_name \notin DOMAIN HwSectorSize
             THEN InitLines(lines, k + 1, disks)
           ELSE InitLines(lines, k + 1,
                          Append(disks, Disk(l.disk_name, l.sectors_read, 0,
                                             HwSectorSize[l.disk_name])))

\* DisksIOInfo::DisksIOInfo() and init(), finding the source src.
init(src) ==
  IF ~src.open
    THEN [m_state |-> "NO_DISKS_AVAILABLE", m_disks |-> <<>>]
    ELSE [m_state |-> "HAVE_DISKS", m_disks |-> InitLines(Lines(src), 1, <<>>)]

\* update(): for (auto& disk : m_disks) if (disk.name == disk_name) ...
Shift(disks, l) ==
  [k \in 1..Len(disks) |->
     IF disks[k].name = l.disk_name
       THEN [disks[k] EXCEPT !.last_sectors_read = disks[k].current_sectors_read,
                             !.current_sectors_read = l.sectors_read]
       ELSE disks[k]]

\* The body of update()'s read loop over the lines from position k on.
RECURSIVE UpdateLines(_, _, _)
UpdateLines(lines, k, disks) ==
  IF k > Len(lines) THEN disks
  ELSE UpdateLines(lines, k + 1, Shift(disks, lines[k]))

\* update(): the source cannot be opened.
Zeroed(disks) ==
  [k \in 1..Len(disks) |->
     [disks[k] EXCEPT !.current_sectors_read = 0, !.last_sectors_read = 0]]

\* The line update() writes to std::cerr.
NoDiskInfo == "No disk I/O information available"

\* update(), finding the source src: the object after it, what it writes to
\* std::cerr, and whether it returns.  On a stream that could not be opened
\* every extraction and getline fails without setting eofbit, so the loop
\* `while (not diskstats.eof())` is never left.
update(d, src) ==
  IF d.m_state # "HAVE_DISKS"
    THEN [d |-> d, cerr |-> <<NoDiskInfo>>, returns |-> TRUE]
  ELSE IF ~src.open
    THEN [d |-> [d EXCEPT !.m_disks = Zeroed(d.m_disks)], cerr |-> <<>>,
          returns |-> FALSE]
  ELSE [d |-> [d EXCEPT !.m_disks = UpdateLines(Lines(src), 1, d.m_disks)],
        cerr |-> <<>>, returns |-> TRUE]

\* getFastestDiskRead(): the loop from disk k on.
RECURSIVE FastestFrom(_, _, _)
FastestFrom(disks, k, fastest) ==
  IF k > Len(disks) THEN fastest
  ELSE LET read == SizeMul(disks[k].bytes_per_sector,
                           SizeSub(disks[k].current_sectors_read,
                                   disks[k].last_sectors_read))
       IN  FastestFrom(disks, k + 1, IF read > fastest THEN read ELSE fastest)

\* DisksIOInfo::getFastestDiskRead()
getFastestDiskRead(d) == FastestFrom(d.m_disks, 1, 0)

\* The two latest states of the source that init() and update() found.
Found(src) == IF diskstats = <<>> THEN <<src>> ELSE <<diskstats[Len(diskstats)], src>>

\* A caller runs update(), finding the source in state src.  pc becomes
\* "update_loop" when update() does not return.
CallUpdate ==
  /\ pc = "idle"
  /\ \E src \in Sources :
       LET u == update(disks_info, src)
       IN  /\ disks_info' = u.d
           /\ cerr' = cerr \o u.cerr
           /\ Len(cerr') <= MaxLines
           /\ diskstats' = (IF disks_info.m_state = "HAVE_DISKS"
                              THEN Found(src) ELSE diskstats)
           /\ pc' = IF u.returns THEN "idle" ELSE "update_loop"
  /\ UNCHANGED <<infilenames, outfilenames, randomize, workload_split, mode,
                 num_workers, file_indices, workers, i, slice_point_a,
                 slice_point_b, cw, acc, hist, cout, timerVars, callVars,
                 options, host, cpu_info, times, row>>

\* A caller runs getFastestDiskRead() and keeps the result.
CallGetFastestDiskRead ==
  /\ pc = "idle"
  /\ row' = [actual_disk_speed |-> getFastestDiskRead(disks_info)]
  /\ UNCHANGED <<infilenames, outfilenames, randomize, workload_split, mode,
                 num_workers, file_indices, workers, i, slice_point_a,
                 slice_point_b, pc, cw, acc, hist, cout, timerVars, callVars,
                 options, host, disks_info, diskstats, cpu_info, times, cerr>>

\* A DisksIOInfo just constructed, outside any run of main.
DiskInit ==
  /\ \E src \in Sources :
       /\ diskstats = <<src>>
       /\ disks_info = init(src)
  /\ row = <<>>
  /\ cerr = <<>>
  /\ options = <<>>
  /\ host = <<>>
  /\ cpu_info = <<>>
  /\ times = <<>>
  /\ infilenames = <<>>
  /\ outfilenames = <<>>
  /\ randomize = FALSE
  /\ workload_split = "separate"
  /\ mode = "read"
  /\ num_workers = 1
  /\ file_indices = <<>>
  /\ workers = <<>>
  /\ i = 0
  /\ slice_point_a = 0
  /\ slice_point_b = 0
  /\ pc = "idle"
  /\ cw = 0
  /\ acc = <<>>
  /\ hist = <<>>
  /\ cout = <<>>
  /\ TimerNotConstructed

DiskNext == CallUpdate \/ CallGetFastestDiskRead

DiskSpec == DiskInit /\ [][DiskNext]_vars

\* ------------------------------------------------------------------ CPUUsageInfo
\* What one call of times() yields: the return value (elapsed clock ticks)
\* and the system and user time of the process in the struct tms.
TimeSamples == [now : 0..MaxTicks, tms_stime : 0..MaxTicks, tms_utime : 0..MaxTicks]

\* The lines of /proc/cpuinfo that start with "processor".
ProcessorCounts == {2}

\* CPUUsageInfo::CPUUsageInfo(), times() yielding s and /proc/cpuinfo naming
\* n processors.
CPUUsageInfo(s, n) ==
  [lastCPU |-> s.now, lastSysCPU |-> s.tms_stime, lastUserCPU |-> s.tms_utime,
   numProcessors |-> n]

\* A float that is the quotient of two whole numbers of ticks.
Quotient(num, den) == [num |-> num, den |-> den]

\* percent = -1.0
Sentinel == Quotient(-1, 1)

\* No call has returned a value yet.
NoResult == Quotient(0, 0)

\* getTotalCPUUsage(): the overflow detection
Overflowed(c, s) ==
  \/ s.now <= c.lastCPU
  \/ s.tms_stime < c.lastSysCPU
  \/ s.tms_utime < c.lastUserCPU

\* getTotalCPUUsage(): percent
Percent(c, s) ==
  IF Overflowed(c, s) THEN Sentinel
  ELSE Quotient((s.tms_stime - c.lastSysCPU) + (s.tms_utime - c.lastUserCPU),
                s.now - c.lastCPU)

\* Mutant of Rebase: a sample that failed the overflow detection is dropped.
RebaseIfSane(c, s) ==
  IF Overflowed(c, s) THEN c
  ELSE [c EXCEPT !.lastCPU = s.now, !.lastSysCPU = s.tms_stime,
                 !.lastUserCPU = s.tms_utime]

\* getTotalCPUUsage(): lastCPU = now; lastSysCPU = ...; lastUserCPU = ...
Rebase(c, s) ==
  [c EXCEPT !.lastCPU = s.now, !.lastSysCPU = s.tms_stime,
            !.lastUserCPU = s.tms_utime]

\* getTotalCPUUsage(), times() yielding s: the result and the object after it.
getTotalCPUUsage(c, s) == [percent |-> Percent(c, s), c |-> Rebase(c, s)]

\* A caller runs getTotalCPUUsage() and keeps the result, next to the result
\* of the call before.
CallGetTotalCPUUsage ==
  /\ pc = "idle"
  /\ \E s \in TimeSamples :
       LET r == getTotalCPUUsage(cpu_info, s)
       IN  /\ times' = s
           /\ cpu_info' = r.c
           /\ row' = [cpu_usage |-> r.percent, before |-> row.cpu_usage]
  /\ UNCHANGED <<infilenames, outfilenames, randomize, workload_split, mode,
                 num_workers, file_indices, workers, i, slice_point_a,
                 slice_point_b, pc, cw, acc, hist, cout, timerVars, callVars,
                 options, host, disks_info, diskstats, cerr>>

\* A CPUUsageInfo just constructed, outside any run of main.
CpuInit ==
  /\ \E s \in TimeSamples, n \in ProcessorCounts :
       /\ times = s
       /\ cpu_info = CPUUsageInfo(s, n)
  /\ row = [cpu_usage |-> NoResult, before |-> NoResult]
  /\ cerr = <<>>
  /\ options = <<>>
  /\ host = <<>>
  /\ disks_info = <<>>
  /\ diskstats = <<>>
  /\ infilenames = <<>>
  /\ outfilenames = <<>>
  /\ randomize = FALSE
  /\ workload_split = "separate"
  /\ mode = "read"
  /\ num_workers = 1
  /\ file_indices = <<>>
  /\ workers = <<>>
  /\ i = 0
  /\ slice_point_a = 0
  /\ slice_point_b = 0
  /\ pc = "idle"
  /\ cw = 0
  /\ acc = <<>>
  /\ hist = <<>>
  /\ cout = <<>>
  /\ TimerNotConstructed

CpuNext == CallGetTotalCPUUsage

CpuSpec == CpuInit /\ [][CpuNext]_vars

\* ------------------------------------------------------------------ split
SliceSize(n, w) == n \div w

SlicePointA(ss, k) == (ss * k) % SizeModulus

SlicePointB(ss, k, n) == Max((ss * (k + 1) - 1) % SizeModulus, n)

\* std::vector<int> slice(begin + a, begin + b).  A range inside the vector
\* is copied.  Any other range is undefined behaviour: last lies before
\* first, the constructor computes a negative distance and asks for that
\* many elements, which throws (std::length_error or std::bad_alloc) or
\* faults; nothing catches it, so the process ends abnormally (ok = FALSE).
VectorRange(v, a, b) ==
  LET first == ToDiff(a)
      last  == ToDiff(b)
  IN  IF 0 <= first /\ first <= last /\ last <= Len(v)
      THEN {[ok |-> TRUE, v |-> SubSeq(v, first + 1, last)]}
      ELSE {[ok |-> FALSE, v |-> <<>>]}

\* The slices one iteration of the "separate" branch can build.
SeparateSlices(fi, a, b) == VectorRange(fi, a, b)

\* The slices one iteration of the "overlap" branch can build (shuffled).
OverlapSlices(fi, a, b) ==
  UNION {IF r.ok THEN {[ok |-> TRUE, v |-> s] : s \in Shuffles(r.v)} ELSE {r}
         : r \in VectorRange(fi, a, b)}

\* Mutant of SameSlice: the last index is left out.
SameSliceDropLast(fi) == SubSeq(fi, 1, Len(fi) - 1)

\* The vector one iteration of the "same" branch passes to Worker.
SameSlice(fi) == fi

\* State after the file lists are parsed and file_indices is generated.
SplitInit ==
  /\ \E nin \in 0..MaxFiles, nout \in 0..MaxFiles :
       /\ infilenames = Paths(nin)
       /\ outfilenames = Paths(nout)
       /\ file_indices = Iota(Max(nin, nout))
  /\ randomize \in BOOLEAN
  /\ workload_split \in {"separate", "overlap", "same"}
  /\ mode \in Modes
  /\ num_workers \in 1..MaxJobs
  /\ workers = <<>>
  /\ i = 0
  /\ slice_point_a = 0
  /\ slice_point_b = 0
  /\ pc = "shuffle"
  /\ cw = 0
  /\ acc = <<>>
  /\ hist = <<>>
  /\ cout = <<>>
  /\ TimerNotConstructed
  /\ HostNotConstructed

\* if (options.get("randomize")) std::shuffle(file_indices...)
Shuffle ==
  /\ pc = "shuffle"
  /\ IF randomize
       THEN file_indices' \in Shuffles(file_indices)
       ELSE file_indices' = file_indices
  /\ pc' = "create"
  /\ UNCHANGED <<timerVars, callVars, hostVars, cout, infilenames, outfilenames, randomize, workload_split, mode,
                 num_workers, workers, i, slice_point_a, slice_point_b, cw,
                 acc, hist>>

\* workers.emplace_back(std::move(Worker{slice}))
EmplaceBack(slice) == Append(workers, MoveWorker(Worker(slice)))

\* One iteration of the creation loop of the "separate" or "overlap" branch.
CreateSliced ==
  /\ pc = "create"
  /\ workload_split \in {"separate", "overlap"}
  /\ i < num_workers
  /\ LET n  == Len(file_indices)
         ss == SliceSize(n, num_workers)
         a  == SlicePointA(ss, i)
         b  == SlicePointB(ss, i, n)
     IN  /\ slice_point_a' = a
         /\ slice_point_b' = b
         /\ \E r \in (IF workload_split = "separate"
                        THEN SeparateSlices(file_indices, a, b)
                        ELSE OverlapSlices(file_indices, a, b)) :
              IF r.ok
                THEN /\ workers' = EmplaceBack(r.v)
                     /\ i' = i + 1
                     /\ pc' = pc
                ELSE /\ pc' = "terminated"
                     /\ UNCHANGED <<workers, i>>
  /\ UNCHANGED <<timerVars, callVars, hostVars, cout, infilenames, outfilenames, randomize, workload_split, mode,
                 num_workers, file_indices, cw, acc, hist>>

\* One iteration of the creation loop of the "same" branch.
CreateSame ==
  /\ pc = "create"
  /\ workload_split = "same"
  /\ i < num_workers
  /\ workers' = EmplaceBack(SameSlice(file_indices))
  /\ i' = i + 1
  /\ UNCHANGED <<timerVars, callVars, hostVars, cout, infilenames, outfilenames, randomize, workload_split, mode,
                 num_workers, file_indices, slice_point_a, slice_point_b,
                 pc, cw, acc, hist>>

\* The creation loop ends; main goes on to start the workers.
CreateDone ==
  /\ pc = "create"
  /\ i = num_workers
  /\ pc' = "start"
  /\ UNCHANGED <<timerVars, callVars, hostVars, cout, infilenames, outfilenames, randomize, workload_split, mode,
                 num_workers, file_indices, workers, i, slice_point_a,
                 slice_point_b, cw, acc, hist>>

SplitNext == Shuffle \/ CreateSliced \/ CreateSame \/ CreateDone

SplitSpec == SplitInit /\ [][SplitNext]_vars

\* ------------------------------------------------------------------ Worker operations
\* The controller thread calls Start(), Stop(), isDone() and getProgress();
\* each launched execution thread runs Loop().  The fields of worker record k:
\*   thread  "null"    m_thread_ptr holds no thread
\*           "running" the thread is executing Loop (joinable)
\*           "exited"  Loop has returned, the thread is not joined (joinable)
\*           "joined"  join() has returned (not joinable)
\*   loc     the statement of Loop the thread executes next
\*   it      the position of the range-for in m_indices
\*   samples the number of AddSample calls on m_data_throughput_logger
\* pc is the controller's position: "idle" between calls, "Stop_write" and
\* "Stop_join" inside Stop(), "terminated" once the process has ended
\* abnormally (std::terminate, an uncaught exception or a fault).

\* One access to a field of a worker from a thread.
Access(who, fld, kind) == [who |-> who, field |-> fld, kind |-> kind]

\* acc[k] holds the accesses to worker k's fields that no thread creation or
\* join orders: m_status and m_done are plain fields, and the class holds no
\* mutex or atomic, so creation and join are the only ordering there is.
Record(k, a) == [acc EXCEPT ![k] = @ \cup {a}]

\* Two unordered accesses to one field from two threads, one of them a write.
DataRace(k) ==
  \E x, y \in acc[k] :
     /\ x.who # y.who
     /\ x.field = y.field
     /\ "w" \in {x.kind, y.kind}

\* The statement a fresh thread executes first: the range-for test.
LoopEntry(w) == IF Len(w.m_indices) >= 1 THEN "check" ELSE "finish"

\* The statement after the body of one iteration (also after `continue`).
NextIteration(w) ==
  [w EXCEPT !.it = w.it + 1,
            !.loc = IF w.it + 1 <= Len(w.m_indices) THEN "check" ELSE "finish"]

\* Start(): if (m_status == RUNNING) return;
StartReturnsEarly(w) == w.m_status = "RUNNING"

\* Start() returning at once on a RUNNING worker.
StartNoop(k) ==
  /\ pc = "idle"
  /\ StartReturnsEarly(workers[k])
  /\ acc' = Record(k, Access("ctl", "m_status", "r"))
  /\ hist' = [hist EXCEPT ![k].last = "Start"]
  /\ UNCHANGED <<mainVars, workers, pc, cw>>

\* Start() on a worker whose m_thread_ptr is empty or holds a joined thread:
\* m_status = RUNNING and a new thread runs Loop.
StartLaunch(k) ==
  /\ pc = "idle"
  /\ ~StartReturnsEarly(workers[k])
  /\ workers[k].thread \in {"null", "joined"}
  /\ hist[k].threads < MaxThreads
  /\ workers' = [workers EXCEPT ![k].m_status = "RUNNING",
                                ![k].thread = "running",
                                ![k].loc = LoopEntry(workers[k]),
                                ![k].it = 1]
  /\ acc' = [acc EXCEPT ![k] = {}]
  /\ hist' = [hist EXCEPT ![k].threads = @ + 1, ![k].last = "Start"]
  /\ UNCHANGED <<mainVars, pc, cw>>

\* Start() on a worker whose m_thread_ptr still holds a joinable thread:
\* m_status = RUNNING, then the assignment to m_thread_ptr destroys the
\* joinable std::thread, which calls std::terminate.
StartTerminate(k) ==
  /\ pc = "idle"
  /\ ~StartReturnsEarly(workers[k])
  /\ workers[k].thread \in {"running", "exited"}
  /\ workers' = [workers EXCEPT ![k].m_status = "RUNNING"]
  /\ acc' = [acc EXCEPT ![k] = @ \cup {Access("ctl", "m_status", "r"),
                                       Access("ctl", "m_status", "w")}]
  /\ hist' = [hist EXCEPT ![k].last = "Start"]
  /\ pc' = "terminated"
  /\ UNCHANGED <<mainVars, cw>>

\* The controller enters Stop().
StopCall(k) ==
  /\ pc = "idle"
  /\ pc' = "Stop_write"
  /\ cw' = k
  /\ hist' = [hist EXCEPT ![k].stopped = TRUE,
                          ![k].stop_entry = workers[k].m_status,
                          ![k].stop_thread = workers[k].thread,
                          ![k].last = "Stop_call"]
  /\ UNCHANGED <<mainVars, workers, acc>>

\* Stop(): m_status = STOPPING
StopStatus(w) == "STOPPING"

StopWrite ==
  /\ pc = "Stop_write"
  /\ workers' = [workers EXCEPT ![cw].m_status = StopStatus(workers[cw])]
  /\ acc' = Record(cw, Access("ctl", "m_status", "w"))
  /\ pc' = "Stop_join"
  /\ UNCHANGED <<mainVars, cw, hist>>

\* Stop(): if (m_thread_ptr and m_thread_ptr->joinable()) join();
\* join() blocks while the thread is running.
StopJoin ==
  /\ pc = "Stop_join"
  /\ workers[cw].thread # "running"
  /\ IF workers[cw].thread = "exited"
       THEN /\ workers' = [workers EXCEPT ![cw].thread = "joined"]
            /\ acc' = [acc EXCEPT ![cw] = {}]
       ELSE UNCHANGED <<workers, acc>>
  /\ pc' = "idle"
  /\ hist' = [hist EXCEPT ![cw].last = "Stop",
                          ![cw].done_at_return = workers[cw].m_done]
  /\ UNCHANGED <<mainVars, cw>>

\* isDone(): return m_status == FINISHED
isDone(w) == w.m_status = "FINISHED"

\* getProgress(): return m_done
getProgress(w) == w.m_done

\* The controller calls isDone().
CallIsDone(k) ==
  /\ pc = "idle"
  /\ acc' = Record(k, Access("ctl", "m_status", "r"))
  /\ acc' # acc
  /\ UNCHANGED <<mainVars, workers, pc, cw, hist>>

\* The controller calls getProgress().
CallGetProgress(k) ==
  /\ pc = "idle"
  /\ acc' = Record(k, Access("ctl", "m_done", "r"))
  /\ acc' # acc
  /\ UNCHANGED <<mainVars, workers, pc, cw, hist>>

\* The execution thread of worker k is at statement l of Loop.
At(k, l) ==
  /\ pc # "terminated"
  /\ workers[k].thread = "running"
  /\ workers[k].loc = l

\* Loop: if (m_status != RUNNING)
LoopMustStop(w) == w.m_status # "RUNNING"

LoopCheck(k) ==
  /\ At(k, "check")
  /\ workers' = [workers EXCEPT ![k].loc =
                   IF LoopMustStop(workers[k]) THEN "early" ELSE "inc"]
  /\ acc' = Record(k, Access("wrk", "m_status", "r"))
  /\ UNCHANGED <<mainVars, pc, cw, hist>>

\* Loop: { m_status = FINISHED; return; }
LoopEarly(k) ==
  /\ At(k, "early")
  /\ workers' = [workers EXCEPT ![k].m_status = "FINISHED",
                                ![k].loc = "return"]
  /\ acc' = Record(k, Access("wrk", "m_status", "w"))
  /\ UNCHANGED <<mainVars, pc, cw, hist>>

\* Loop: ++m_done
Increment(n) == n + 1

LoopInc(k) ==
  /\ At(k, "inc")
  /\ workers' = [workers EXCEPT ![k].m_done = Increment(@),
                                ![k].loc = "open"]
  /\ acc' = Record(k, Access("wrk", "m_done", "w"))
  /\ UNCHANGED <<mainVars, pc, cw, hist>>

\* Loop: std::ifstream ifs{infilenames[random_index]}.  An index inside
\* infilenames opens the file or fails to.  An index outside it is undefined
\* behaviour: the read of the string faults, or yields a path that opens or
\* fails to open.
OpenOutcomes(idx) ==
  IF idx < Len(infilenames) THEN {"opened", "bad"}
  ELSE {"opened", "bad", "fault"}

\* The line Loop writes to std::cerr for a file it cannot open.
BadFile == "Bad file"

\* A bad file ending Loop as a stop request does.
ContinueReturns(w) == [w EXCEPT !.m_status = "FINISHED", !.loc = "return"]

\* Loop: if (ifs.bad() or not ifs.is_open()) { std::cerr << ...; continue; }
Continue(w) == NextIteration(w)

\* Loop: open the file; if (ifs.bad() or not ifs.is_open()) continue;
LoopOpen(k) ==
  /\ At(k, "open")
  /\ \E o \in OpenOutcomes(workers[k].m_indices[workers[k].it]) :
       /\ workers' = [workers EXCEPT ![k] =
                        IF o = "opened" THEN [@ EXCEPT !.loc = "read"]
                        ELSE IF o = "bad" THEN Continue(@)
                        ELSE @]
       /\ cerr' = IF o = "bad" THEN Append(cerr, BadFile) ELSE cerr
       /\ pc' = IF o = "fault" THEN "terminated" ELSE pc
  /\ UNCHANGED <<infilenames, outfilenames, randomize, workload_split, mode,
                 num_workers, file_indices, i, slice_point_a, slice_point_b,
                 cout, timerVars, callVars, options, host, disks_info, diskstats,
                 cpu_info, times, row, cw, acc, hist>>

\* Loop: read the content, close, m_data_throughput_logger.AddSample(size)
LoopRead(k) ==
  /\ At(k, "read")
  /\ workers' = [workers EXCEPT ![k] =
                   NextIteration([workers[k] EXCEPT !.samples = @ + 1])]
  /\ UNCHANGED <<mainVars, pc, cw, acc, hist>>

\* Loop, after the range-for: m_status = FINISHED
LoopFinish(k) ==
  /\ At(k, "finish")
  /\ workers' = [workers EXCEPT ![k].m_status = "FINISHED",
                                ![k].loc = "return"]
  /\ acc' = Record(k, Access("wrk", "m_status", "w"))
  /\ UNCHANGED <<mainVars, pc, cw, hist>>

\* Loop returns; the thread ends.
ThreadExit(k) ==
  /\ At(k, "return")
  /\ workers' = [workers EXCEPT ![k].thread = "exited", ![k].loc = "none"]
  /\ UNCHANGED <<mainVars, pc, cw, acc, hist>>

\* One step of worker k's execution thread.
ThreadStep(k) ==
  \/ LoopCheck(k)
  \/ LoopEarly(k)
  \/ LoopInc(k)
  \/ LoopOpen(k)
  \/ LoopRead(k)
  \/ LoopFinish(k)
  \/ ThreadExit(k)

\* No call has been made on the worker yet.
NoHistory ==
  [threads |-> 0, stopped |-> FALSE, stop_entry |-> "none", stop_thread |-> "none",
   last |-> "none", done_at_return |-> 0]

\* The state main reaches with --jobs 1 and --workload-split same once its
\* worker is built: one Worker holding the whole (possibly shuffled)
\* file-index set of N = max(inputs, outputs) <= MaxLen indices.  The output
\* list is the longer one when the input list is short.
WorkerInit ==
  /\ \E n \in 0..MaxLen, nin \in 0..MaxLen :
       /\ nin <= n
       /\ infilenames = Paths(nin)
       /\ outfilenames = IF nin < n THEN Paths(n) ELSE <<>>
       /\ file_indices \in Shuffles(Iota(n))
  /\ randomize = (file_indices # Iota(Len(file_indices)))
  /\ workload_split = "same"
  /\ mode \in Modes
  /\ num_workers = 1
  /\ workers = <<MoveWorker(Worker(SameSlice(file_indices)))>>
  /\ i = 1
  /\ slice_point_a = 0
  /\ slice_point_b = 0
  /\ pc = "idle"
  /\ cw = 1
  /\ acc = <<{}>>
  /\ hist = <<NoHistory>>
  /\ cout = <<>>
  /\ TimerNotConstructed
  /\ HostNotConstructed

WorkerNext ==
  \/ \E k \in 1..Len(workers) : StartNoop(k)
  \/ \E k \in 1..Len(workers) : StartLaunch(k)
  \/ \E k \in 1..Len(workers) : StartTerminate(k)
  \/ \E k \in 1..Len(workers) : StopCall(k)
  \/ StopWrite
  \/ StopJoin
  \/ \E k \in 1..Len(workers) : CallIsDone(k)
  \/ \E k \in 1..Len(workers) : CallGetProgress(k)
  \/ \E k \in 1..Len(workers) : LoopCheck(k)
  \/ \E k \in 1..Len(workers) : LoopEarly(k)
  \/ \E k \in 1..Len(workers) : LoopInc(k)
  \/ \E k \in 1..Len(workers) : LoopOpen(k)
  \/ \E k \in 1..Len(workers) : LoopRead(k)
  \/ \E k \in 1..Len(workers) : LoopFinish(k)
  \/ \E k \in 1..Len(workers) : ThreadExit(k)

WorkerSpec == WorkerInit /\ [][WorkerNext]_vars

\* The scheduler runs every thread that can take a step: the execution thread
\* goes on through Loop (file I/O terminates), and the controller goes on
\* through a Stop() it has entered.  Nothing obliges the caller to call
\* Start(), Stop(), isDone() or getProgress().
WorkerFairSpec ==
  /\ WorkerSpec
  /\ WF_vars(ThreadStep(1))
  /\ WF_vars(StopWrite \/ StopJoin)

\* ------------------------------------------------------------------ main, from the start of the workers
\* Positions of the controller thread in main: "start" (the range-for
\* calling Start), "loop" (the test of the while), "poll" (print_timer.IsDue),
\* "report" (the body of the if), "sleep" (the else), "stop" and "stop_join"
\* (the range-for calling Stop), "returned" (return EXIT_SUCCESS).  cw counts
\* the workers the current range-for is through with.

\* The accesses to m_status that allWorkersFinished makes: std::all_of
\* calls isDone() on the workers in order, up to the first that is not done.
ReadByAllOf(k) == \A j \in 1..(k - 1) : isDone(workers[j])

\* Mutant of allWorkersFinished: std::any_of.
anyWorkerFinished == \E k \in 1..Len(workers) : isDone(workers[k])

\* allWorkersFinished()
allWorkersFinished == \A k \in 1..Len(workers) : isDone(workers[k])

\* for (auto& w : workers) w.Start(): one call.  Every worker is INIT with
\* an empty m_thread_ptr, so Start() sets RUNNING and launches the thread.
MainStart ==
  /\ pc = "start"
  /\ cw < Len(workers)
  /\ ~StartReturnsEarly(workers[cw + 1])
  /\ workers' = [workers EXCEPT ![cw + 1].m_status = "RUNNING",
                                ![cw + 1].thread = "running",
                                ![cw + 1].loc = LoopEntry(workers[cw + 1]),
                                ![cw + 1].it = 1]
  /\ acc' = [acc EXCEPT ![cw + 1] = {}]
  /\ hist' = [hist EXCEPT ![cw + 1].threads = @ + 1, ![cw + 1].last = "Start"]
  /\ cw' = cw + 1
  /\ UNCHANGED <<mainVars, pc>>

\* The clock units in one tick of times().
UnitsPerTick == 4

\* What times() can yield in main's run at clock reading t: the elapsed
\* ticks follow the clock, the process has spent no system time, and its
\* user time is one the host allows.
MainTimeSamples(t) ==
  {s \in TimeSamples : /\ s.now = t \div UnitsPerTick
                        /\ s.tms_stime = 0
                        /\ s.tms_utime \in host.busy}

\* A host with one disk that reads nothing during the run, and a process
\* that spends less than a tick of CPU time.
QuietHost ==
  [sources |-> {[open |-> TRUE, stats |-> [n \in {"sda", "sda1"} |-> 0]]},
   busy |-> {0}]

\* All workers are started: cpu_info, disks_info and print_timer{1.f} are
\* constructed and the table header is written.
MainStarted ==
  /\ pc = "start"
  /\ cw = Len(workers)
  /\ \E s \in MainTimeSamples(now), n \in ProcessorCounts :
       /\ times' = s
       /\ cpu_info' = CPUUsageInfo(s, n)
  /\ \E src \in host.sources :
       /\ diskstats' = <<src>>
       /\ disks_info' = init(src)
  /\ \E g \in IndeterminateBeats : pacemaker' = Pacemaker(1, FALSE, now, g)
  /\ pc' = "loop"
  /\ UNCHANGED <<infilenames, outfilenames, randomize, workload_split, mode,
                 num_workers, file_indices, workers, i, slice_point_a,
                 slice_point_b, cw, acc, hist, cout, now, obs, callVars,
                 options, host, cerr, row>>

\* while (not allWorkersFinished()).  The locals of the body of the if are
\* out of scope.
MainTest ==
  /\ pc = "loop"
  /\ pc' = IF allWorkersFinished THEN "stop" ELSE "poll"
  /\ cw' = IF allWorkersFinished THEN 0 ELSE cw
  /\ acc' = [k \in 1..Len(acc) |->
               IF ReadByAllOf(k)
                 THEN acc[k] \cup {Access("ctl", "m_status", "r")}
                 ELSE acc[k]]
  /\ row' = <<>>
  /\ UNCHANGED <<infilenames, outfilenames, randomize, workload_split, mode,
                 num_workers, file_indices, i, slice_point_a, slice_point_b,
                 cout, timerVars, callVars, options, host, disks_info, diskstats,
                 cpu_info, times, cerr, workers, hist>>

\* if (print_timer.IsDue())
MainPoll ==
  /\ pc = "poll"
  /\ LET r == IsDue(pacemaker, now)
     IN  /\ pacemaker' = r.p
         /\ pc' = IF r.due THEN "report" ELSE "sleep"
  /\ UNCHANGED <<programVarsButPc, now, obs>>

\* The summary statistics main keeps of the aggregate throughput: none.
\* throughput_sum is a local of the if body, written to std::cout and
\* compared with the disk speed; no container outlives the iteration.
ThroughputHistory == <<>>

\* The rates m_data_throughput_logger.FPS(1.f) can return, in bytes per
\* second.
Throughputs == {0, 550, 1127}

\* getThroughput(): the rate over the trailing second; 0 when the estimator
\* holds no sample.
getThroughput(w) == IF w.samples = 0 THEN {0} ELSE Throughputs

\* The sum of f over 1..n.
RECURSIVE Sum(_, _)
Sum(f, n) == IF n = 0 THEN 0 ELSE f[n] + Sum(f, n - 1)

\* Mutant of CpuBound: the bound is 0.9 for any number of workers.
CpuBoundOne(cpu_usage, n) == cpu_usage.num * 10 >= 9 * cpu_usage.den

\* cpu_usage >= 0.9*num_workers, for a quotient of whole numbers.  (The
\* float-to-double rounding at exact equality is left out: no quotient of
\* the model equals nine tenths of a whole number above 0.)
CpuBound(cpu_usage, n) == cpu_usage.num * 10 >= 9 * n * cpu_usage.den

\* Mutant of CacheSuspected: faster than the disk at all.
FasterThanDisk(throughput_sum, actual_disk_speed) ==
  throughput_sum > actual_disk_speed

\* throughput_sum > 1.1 * actual_disk_speed, for whole numbers: the disk
\* speed is below ten elevenths of the throughput (11 * actual_disk_speed
\* is not formed: it does not fit the model's integers).
CacheSuspected(throughput_sum, actual_disk_speed) ==
  actual_disk_speed <= (10 * throughput_sum - 1) \div 11

\* static_cast<float>(100*done_sum)/infilenames.size(): the first column
\* of a report row, as the quotient of the two whole numbers (a float
\* division by 0 yields inf or NaN, no whole-number quotient).
PercentDone(done_sum, size) == Quotient(100 * done_sum, size)

\* The warning lines of a report row.
CpuWarning == "(benchmark might be CPU-constrained; use more workers!)"

CacheWarning == "(actual disk is much slower; data may be cached!)"

\* The body of the if: getProgress() and getThroughput() of every worker,
\* the CPU usage, one row of the table, the CPU warning, disks_info.update(),
\* the cache warning.  pc becomes "update_loop" when update() does not
\* return.
MainReport ==
  /\ pc = "report"
  /\ \E tp \in [1..Len(workers) -> Throughputs],
        s \in MainTimeSamples(now), src \in host.sources :
       LET done_sum       == Sum([k \in 1..Len(workers) |-> getProgress(workers[k])],
                                 Len(workers))
           throughput_sum == Sum(tp, Len(workers))
           c              == getTotalCPUUsage(cpu_info, s)
           u              == update(disks_info, src)
           actual_disk_speed == getFastestDiskRead(u.d)
       IN  /\ \A k \in 1..Len(workers) : tp[k] \in getThroughput(workers[k])
           /\ times' = s
           /\ cpu_info' = c.c
           /\ disks_info' = u.d
           /\ diskstats' = (IF disks_info.m_state = "HAVE_DISKS"
                              THEN Found(src) ELSE diskstats)
           /\ cerr' = cerr \o u.cerr
           /\ cout' = cout \o <<"row">>
                        \o (IF CpuBound(c.percent, num_workers)
                              THEN <<CpuWarning>> ELSE <<>>)
                        \o (IF u.returns /\ CacheSuspected(throughput_sum,
                                                           actual_disk_speed)
                              THEN <<CacheWarning>> ELSE <<>>)
           /\ row' = [done_sum |-> done_sum, throughput_sum |-> throughput_sum,
                      percent |-> PercentDone(done_sum, Len(infilenames)),
                      cpu_usage |-> c.percent,
                      actual_disk_speed |-> IF u.returns THEN actual_disk_speed
                                            ELSE 0]
           /\ pc' = IF u.returns THEN "loop" ELSE "update_loop"
  /\ acc' = [k \in 1..Len(acc) |-> acc[k] \cup {Access("ctl", "m_done", "r")}]
  /\ UNCHANGED <<infilenames, outfilenames, randomize, workload_split, mode,
                 num_workers, file_indices, workers, i, slice_point_a,
                 slice_point_b, cw, hist, timerVars, callVars, options,
                 host>>

\* else std::this_thread::sleep_for(std::chrono::milliseconds(10))
MainSleep ==
  /\ pc = "sleep"
  /\ pc' = "loop"
  /\ UNCHANGED <<programVarsButPc, timerVars>>

\* for (auto& w : workers) w.Stop(): m_status = STOPPING
MainStopWrite ==
  /\ pc = "stop"
  /\ cw < Len(workers)
  /\ workers' = [workers EXCEPT ![cw + 1].m_status = StopStatus(workers[cw + 1])]
  /\ acc' = Record(cw + 1, Access("ctl", "m_status", "w"))
  /\ hist' = [hist EXCEPT ![cw + 1].stopped = TRUE,
                          ![cw + 1].stop_entry = workers[cw + 1].m_status,
                          ![cw + 1].stop_thread = workers[cw + 1].thread,
                          ![cw + 1].last = "Stop_call"]
  /\ pc' = "stop_join"
  /\ UNCHANGED <<mainVars, cw>>

\* for (auto& w : workers) w.Stop(): the join
MainStopJoin ==
  /\ pc = "stop_join"
  /\ workers[cw + 1].thread # "running"
  /\ IF workers[cw + 1].thread = "exited"
       THEN /\ workers' = [workers EXCEPT ![cw + 1].thread = "joined"]
            /\ acc' = [acc EXCEPT ![cw + 1] = {}]
       ELSE UNCHANGED <<workers, acc>>
  /\ hist' = [hist EXCEPT ![cw + 1].last = "Stop",
                          ![cw + 1].done_at_return = workers[cw + 1].m_done]
  /\ cw' = cw + 1
  /\ pc' = "stop"
  /\ UNCHANGED mainVars

\* return EXIT_SUCCESS
MainReturn ==
  /\ pc = "stop"
  /\ cw = Len(workers)
  /\ pc' = "returned"
  /\ UNCHANGED <<programVarsButPc, timerVars>>

\* One step of the controller thread.
MainStep ==
  \/ MainStart
  \/ MainStarted
  \/ MainTest
  \/ MainPoll
  \/ MainReport
  \/ MainSleep
  \/ MainStopWrite
  \/ MainStopJoin
  \/ MainReturn

\* The state main reaches with --workload-split same, --mode read and no
\* --randomize-files once its 1..MaxWorkers workers are built: every Worker
\* holds the whole file-index set of N = max(inputs, outputs) <= MaxLen
\* indices.  No Pacemaker is constructed yet.
MainInit ==
  /\ \E n \in 0..MaxLen, nin \in 0..MaxLen :
       /\ nin <= n
       /\ infilenames = Paths(nin)
       /\ outfilenames = IF nin < n THEN Paths(n) ELSE <<>>
       /\ file_indices = Iota(n)
  /\ randomize = FALSE
  /\ workload_split = "same"
  /\ mode = "read"
  /\ num_workers \in 1..MaxWorkers
  /\ workers = [k \in 1..num_workers |->
                  MoveWorker(Worker(SameSlice(file_indices)))]
  /\ i = num_workers
  /\ slice_point_a = 0
  /\ slice_point_b = 0
  /\ pc = "start"
  /\ cw = 0
  /\ acc = [k \in 1..num_workers |-> {}]
  /\ hist = [k \in 1..num_workers |-> NoHistory]
  /\ cout = <<>>
  /\ TimerNotConstructed
  /\ options = <<>>
  /\ host = QuietHost
  /\ disks_info = <<>>
  /\ diskstats = <<>>
  /\ cpu_info = <<>>
  /\ times = <<>>
  /\ cerr = <<>>
  /\ row = <<>>

\* (The early return of Loop is no step of main's run: it needs a status
\* other than RUNNING at the head of an iteration, and main writes STOPPING
\* only when every worker is FINISHED.)
MainNext ==
  \/ MainStart
  \/ MainStarted
  \/ MainTest
  \/ MainPoll
  \/ MainReport
  \/ MainSleep
  \/ MainStopWrite
  \/ MainStopJoin
  \/ MainReturn
  \/ Tick
  \/ \E k \in 1..Len(workers) : LoopCheck(k)
  \/ \E k \in 1..Len(workers) : LoopInc(k)
  \/ \E k \in 1..Len(workers) : LoopOpen(k)
  \/ \E k \in 1..Len(workers) : LoopRead(k)
  \/ \E k \in 1..Len(workers) : LoopFinish(k)
  \/ \E k \in 1..Len(workers) : ThreadExit(k)

MainSpec == MainInit /\ [][MainNext]_vars

\* The scheduler runs every thread that can take a step: the controller
\* goes on through main and every execution thread through Loop (file I/O,
\* the host-monitor reads and sleep_for terminate).
MainFairSpec ==
  /\ MainSpec
  /\ WF_vars(MainStep)
  /\ \A k \in 1..MaxWorkers : WF_vars(k <= Len(workers) /\ ThreadStep(k))

\* ------------------------------------------------------------------ main from the parsed options to the started workers
\* What --infiles or --outfiles can name: nothing (the option is not set), a
\* file that cannot be opened, or a file of up to MaxFiles names, the last of
\* them followed by white space (terminated) or by the end of the file.
ListFiles ==
  {[set |-> FALSE, open |-> FALSE, tokens |-> 0, terminated |-> FALSE],
   [set |-> TRUE, open |-> FALSE, tokens |-> 0, terminated |-> FALSE]}
    \cup [set : {TRUE}, open : {TRUE}, tokens : 0..MaxFiles,
          terminated : BOOLEAN]

\* Mutant of Unreadable: every list counts as opened.
UnreadableNever(list) == FALSE

\* infiles.bad() or not infiles.is_open()
Unreadable(list) == ~list.open

\* while (not eof) { list >> tmp; if (eof) break; push_back(tmp); }: a name
\* whose extraction reaches the end of the file is not pushed, so the last
\* name of a file that does not end in white space is lost.
ReadList(list) ==
  Paths(IF list.terminated \/ list.tokens = 0 THEN list.tokens
        ELSE list.tokens - 1)

\* The messages of main's configuration errors.
NeedList == "Need at least one of [--infiles, --outfiles]"

NoInputs == "Could not read list of inputs"

NoOutputs == "Could not read list of outputs"

UnhandledSplit == "Unhandled choice for workload-split"

\* The state after parse_args() has returned.  --workload-split may hold a
\* value that none of main's three branches handles.
StartupInit ==
  /\ options \in [infiles : ListFiles, outfiles : ListFiles]
  /\ randomize \in BOOLEAN
  /\ workload_split \in {"separate", "overlap", "same", "other"}
  /\ mode \in Modes
  /\ num_workers \in 1..MaxWorkers
  /\ infilenames = <<>>
  /\ outfilenames = <<>>
  /\ file_indices = <<>>
  /\ workers = <<>>
  /\ i = 0
  /\ slice_point_a = 0
  /\ slice_point_b = 0
  /\ pc = "parse"
  /\ cw = 0
  /\ acc = <<>>
  /\ hist = <<>>
  /\ cout = <<>>
  /\ TimerNotConstructed
  /\ host = <<>>
  /\ disks_info = <<>>
  /\ diskstats = <<>>
  /\ cpu_info = <<>>
  /\ times = <<>>
  /\ cerr = <<>>
  /\ row = <<>>

\* if (not options.is_set("infiles") and not options.is_set("outfiles"))
ParseRequired ==
  /\ pc = "parse"
  /\ IF ~options.infiles.set /\ ~options.outfiles.set
       THEN /\ cerr' = Append(cerr, NeedList)
            /\ pc' = "exit_failure"
       ELSE /\ cerr' = cerr
            /\ pc' = "infiles"
  /\ UNCHANGED <<infilenames, outfilenames, randomize, workload_split, mode,
                 num_workers, file_indices, workers, i, slice_point_a,
                 slice_point_b, cw, acc, hist, cout, timerVars, callVars,
                 options, host, disks_info, diskstats, cpu_info, times, row>>

\* if (options.is_set("infiles")) { ... }
ParseInfiles ==
  /\ pc = "infiles"
  /\ IF options.infiles.set /\ Unreadable(options.infiles)
       THEN /\ cerr' = Append(cerr, NoInputs)
            /\ pc' = "exit_failure"
            /\ infilenames' = infilenames
       ELSE /\ cerr' = cerr
            /\ pc' = "outfiles"
            /\ infilenames' = (IF options.infiles.set
                                 THEN infilenames \o ReadList(options.infiles)
                                 ELSE infilenames)
  /\ UNCHANGED <<outfilenames, randomize, workload_split, mode,
                 num_workers, file_indices, workers, i, slice_point_a,
                 slice_point_b, cw, acc, hist, cout, timerVars, callVars,
                 options, host, disks_info, diskstats, cpu_info, times, row>>

\* if (options.is_set("outfiles")) { ... }, and the generation of
\* file_indices after it.
ParseOutfiles ==
  /\ pc = "outfiles"
  /\ IF options.outfiles.set /\ Unreadable(options.outfiles)
       THEN /\ cerr' = Append(cerr, NoOutputs)
            /\ pc' = "exit_failure"
            /\ outfilenames' = outfilenames
            /\ file_indices' = file_indices
       ELSE /\ cerr' = cerr
            /\ pc' = "shuffle"
            /\ outfilenames' = (IF options.outfiles.set
                                  THEN outfilenames \o ReadList(options.outfiles)
                                  ELSE outfilenames)
            /\ file_indices' = Iota(Max(Len(infilenames), Len(outfilenames')))
  /\ UNCHANGED <<infilenames, randomize, workload_split, mode,
                 num_workers, workers, i, slice_point_a,
                 slice_point_b, cw, acc, hist, cout, timerVars, callVars,
                 options, host, disks_info, diskstats, cpu_info, times, row>>

\* The else of the three branches on options["workload-split"].
CreateUnhandled ==
  /\ pc = "create"
  /\ workload_split \notin {"separate", "overlap", "same"}
  /\ cerr' = Append(cerr, UnhandledSplit)
  /\ pc' = "exit_failure"
  /\ UNCHANGED <<infilenames, outfilenames, randomize, workload_split, mode,
                 num_workers, file_indices, workers, i, slice_point_a,
                 slice_point_b, cw, acc, hist, cout, timerVars, callVars,
                 options, host, disks_info, diskstats, cpu_info, times, row>>

StartupNext ==
  \/ ParseRequired
  \/ ParseInfiles
  \/ ParseOutfiles
  \/ Shuffle
  \/ CreateSliced
  \/ CreateSame
  \/ CreateUnhandled
  \/ CreateDone
  \/ MainStart

StartupSpec == StartupInit /\ [][StartupNext]_vars

\* ------------------------------------------------------------------ main's report rows on a busy host
\* A host whose statistics source changes between any two looks at it, and
\* a process that spends less than a tick of CPU time.
BusyDiskHost ==
  [sources |-> {src \in Sources : DOMAIN src.stats \subseteq {"sda", "sda1"}},
   busy |-> {0}]

\* A host without a readable statistics source, and a process whose user
\* time shows any count of ticks at any look.
BusyProcessHost ==
  [sources |-> {[open |-> FALSE, stats |-> <<>>]}, busy |-> 0..MaxTicks]

\* The state main reaches with one input path, --workload-split same,
\* --mode read and no --randomize-files once its 1..MaxWorkers workers are
\* built, on a busy host.
ReportInit ==
  /\ infilenames = Paths(1)
  /\ outfilenames = <<>>
  /\ file_indices = Iota(1)
  /\ randomize = FALSE
  /\ workload_split = "same"
  /\ mode = "read"
  /\ num_workers \in 1..MaxWorkers
  /\ workers = [k \in 1..num_workers |->
                  MoveWorker(Worker(SameSlice(file_indices)))]
  /\ i = num_workers
  /\ slice_point_a = 0
  /\ slice_point_b = 0
  /\ pc = "start"
  /\ cw = 0
  /\ acc = [k \in 1..num_workers |-> {}]
  /\ hist = [k \in 1..num_workers |-> NoHistory]
  /\ cout = <<>>
  /\ TimerNotConstructed
  /\ options = <<>>
  /\ host \in {BusyDiskHost, BusyProcessHost}
  /\ disks_info = <<>>
  /\ diskstats = <<>>
  /\ cpu_info = <<>>
  /\ times = <<>>
  /\ cerr = <<>>
  /\ row = <<>>

ReportSpec == ReportInit /\ [][MainNext]_vars

\* ------------------------------------------------------------------ claims on the split
\* All workers' assignments, one after the other.
RECURSIVE Concatenation(_)
Concatenation(ws) ==
  IF ws = <<>> THEN <<>>
  ELSE ws[1].m_indices \o Concatenation(Tail(ws))

\* s and t hold the same elements the same number of times.
IsPermutation(s, t) ==
  /\ Len(s) = Len(t)
  /\ \A x \in Range(s) \cup Range(t) : Count(s, x) = Count(t, x)

\* C1: under the "separate" split, once all workers are built, the
\* concatenation of their assignments holds every index of the file-index
\* set exactly once.
C1_SeparatePartition ==
  (workload_split = "separate" /\ pc = "start") =>
     /\ Len(workers) = num_workers
     /\ IsPermutation(Concatenation(workers), file_indices)
     /\ \A x \in Range(file_indices) : Count(Concatenation(workers), x) = 1

\* C2: under the "same" split every worker built so far holds an assignment
\* equal to the (possibly shuffled) file-index set, element for element, and
\* when the creation loop has ended there are num_workers of them.
C2_SameIdentical ==
  workload_split = "same" =>
     /\ \A k \in 1..Len(workers) : workers[k].m_indices = file_indices
     /\ pc = "start" => Len(workers) = num_workers

\* C2 witness: at least two workers built under "same" from a shuffled index set.
C2_Witness ==
  /\ workload_split = "same"
  /\ pc = "start"
  /\ Len(workers) >= 2
  /\ randomize
  /\ Len(file_indices) >= 2
  /\ file_indices # Iota(Len(file_indices))
  /\ workers[2].m_indices = file_indices

\* C3: under the "overlap" split every worker's assignment is a permutation
\* of the complete file-index set.
C3_OverlapPermutation ==
  workload_split = "overlap" =>
     \A k \in 1..Len(workers) :
        IsPermutation(workers[k].m_indices, file_indices)

\* C4: in the "separate" and "overlap" splits the slice bounds of every
\* iteration satisfy 0 <= slice_point_a <= slice_point_b <= N.
C4_SliceBounds ==
  workload_split \in {"separate", "overlap"} =>
     /\ 0 <= slice_point_a
     /\ slice_point_a <= slice_point_b
     /\ slice_point_b <= Len(file_indices)

\* ------------------------------------------------------------------ claims on the indices of an assignment
\* C31: for every length of the input list and of the output list, every
\* split and every number of workers, each index of every worker's
\* assignment is a position of infilenames, the list Loop looks the index up
\* in.
C31_IndicesInsideInputList ==
  \A k \in 1..Len(workers) :
     \A j \in 1..Len(workers[k].m_indices) :
        workers[k].m_indices[j] < Len(infilenames)

\* ------------------------------------------------------------------ claims on the Worker
\* A status change in the order INIT -> RUNNING -> {STOPPING | FINISHED} -> FINISHED.
Forward(s, t) ==
  \/ s = t
  \/ <<s, t>> \in {<<"INIT", "RUNNING">>, <<"RUNNING", "STOPPING">>,
                   <<"RUNNING", "FINISHED">>, <<"STOPPING", "FINISHED">>}

\* C5: over any sequence of Start() and Stop() calls interleaved with the
\* execution thread's steps, every change of a worker's status moves forward
\* in the order INIT -> RUNNING -> {STOPPING | FINISHED} -> FINISHED.
C5_StatusForward ==
  [][\A k \in 1..Len(workers) :
        Forward(workers[k].m_status, workers'[k].m_status)]_vars

\* C6: in every reachable state a worker's m_done (getProgress) is at most
\* the number of indices in its assignment.
C6_DoneBounded ==
  \A k \in 1..Len(workers) :
     getProgress(workers[k]) <= Len(workers[k].m_indices)

\* C7: when Stop() was called on a worker whose status was RUNNING and whose
\* thread was executing, then once Stop() has returned (and until the next
\* call of Start or Stop) the thread has been joined, the status is FINISHED
\* (isDone) and m_done is what it was at the return.
C7_StopFinishes ==
  \A k \in 1..Len(workers) :
     (/\ pc = "idle"
      /\ hist[k].last = "Stop"
      /\ hist[k].stop_entry = "RUNNING"
      /\ hist[k].stop_thread = "running")
     => /\ workers[k].thread = "joined"
        /\ isDone(workers[k])
        /\ getProgress(workers[k]) = hist[k].done_at_return

\* C8: whenever the worker's status is STOPPING it eventually becomes
\* FINISHED, whatever the worker's state was when Stop() was called.
C8_StoppingTransient ==
  (workers[1].m_status = "STOPPING") ~> (workers[1].m_status = "FINISHED")

\* C9: a worker whose thread is inside Loop and on which Stop() was never
\* called eventually reaches FINISHED (unless Stop() is called after all),
\* and a worker that is FINISHED without ever having been stopped has
\* m_done equal to the number of indices in its assignment (0 if empty).
C9_RunsToCompletion ==
  /\ [](isDone(workers[1]) /\ ~hist[1].stopped
          => getProgress(workers[1]) = Len(workers[1].m_indices))
  /\ (/\ workers[1].thread = "running"
      /\ workers[1].loc # "return"
      /\ ~hist[1].stopped)
       ~> (isDone(workers[1]) \/ hist[1].stopped)

\* C10: no two accesses to a worker's m_status or m_done, one of them a
\* write, are made by the controller and by the execution thread without
\* thread creation, join, a lock or an atomic ordering them.
C10_RaceFree ==
  \A k \in 1..Len(acc) : ~DataRace(k)

\* The indices of its assignment the worker has counted in m_done and passed
\* without a sample for its rate estimator.
Skipped(w) == w.m_done - w.samples

\* C11: a step of Loop whose open fails (neither opened nor faulting) leaves
\* the sample count of the rate estimator, the status and the live thread as
\* they are, has the index counted in m_done, and goes on to the next index
\* of the assignment, or to the FINISHED write after the last one; and a
\* worker that has skipped an index and has come to the end of its
\* assignment ends in FINISHED.
C11_OpenFailureSkips ==
  /\ [][\A k \in 1..Len(workers) :
          (LoopOpen(k) /\ pc' = pc /\ workers'[k].loc # "read") =>
             /\ workers'[k].samples = workers[k].samples
             /\ workers'[k].m_done = workers[k].m_done
             /\ workers[k].m_done >= 1
             /\ Skipped(workers'[k]) >= 1
             /\ workers'[k].m_status = workers[k].m_status
             /\ workers'[k].thread = "running"
             /\ workers'[k].m_indices = workers[k].m_indices
             /\ workers'[k].it = workers[k].it + 1
             /\ workers'[k].loc =
                  IF workers[k].it < Len(workers[k].m_indices) THEN "check"
                  ELSE "finish"]_vars
  /\ (At(1, "finish") /\ Skipped(workers[1]) >= 1) ~> isDone(workers[1])

\* C11 witness: a worker never stopped that is FINISHED over two indices,
\* one of them skipped on a failed open and one of them read.
C11_Witness ==
  /\ isDone(workers[1])
  /\ ~hist[1].stopped
  /\ Len(workers[1].m_indices) = 2
  /\ getProgress(workers[1]) = 2
  /\ workers[1].samples = 1

\* ------------------------------------------------------------------ claims on the I/O of Loop
\* The worker holds an input path open and reads it.
ReadsInput(w) == w.loc = "read"

\* The indices of the assignment whose I/O the worker is through with.
Passed(w) == w.m_done - (IF w.loc \in {"open", "read"} THEN 1 ELSE 0)

\* Every index of the assignment has a path in the input list, so that every
\* read of infilenames in Loop is inside the vector.
InputsCoverAssignment(w) ==
  \A j \in 1..Len(w.m_indices) : w.m_indices[j] < Len(infilenames)

\* C12: the I/O of a worker follows --mode (stated for the workers whose
\* assignment the input list covers).  In "read" it opens no output path.
\* In "write" it never opens or reads an input path and has opened one
\* output path for every index it is through with.  In "readwrite" it has
\* opened one output path for every input it has read.
C12_ModeSelectsIO ==
  \A k \in 1..Len(workers) :
     LET w == workers[k]
     IN  InputsCoverAssignment(w) =>
           /\ mode = "read" => w.out_opens = 0
           /\ mode = "write" =>
                 /\ ~ReadsInput(w)
                 /\ w.samples = 0
                 /\ w.out_opens = Passed(w)
           /\ mode = "readwrite" => w.out_opens = w.samples

\* ------------------------------------------------------------------ claims on the Pacemaker
\* The Pacemaker has a positive target frequency and is not paused.
Beating ==
  /\ pacemaker.m_target_fps > 0
  /\ pacemaker.m_current_stage = "Running"

\* The time since the stored last beat.
Elapsed == NanosecondsBetween(now, pacemaker.m_time_of_last_beat)

\* The whole beat intervals that have elapsed since the stored last beat.
Banked == Elapsed \div pacemaker.m_ns_per_beat

\* A Pacemaker with a positive target frequency on which Pause, Reset and
\* SetTargetFPS were never called.
Undisturbed == obs.clean /\ pacemaker.m_target_fps > 0

\* C15: an accumulating Pacemaker with a positive target frequency, with no
\* Pause, Reset or SetTargetFPS.  A call of IsDue() made when k >= 1 whole
\* beats have elapsed since the last beat returns true and leaves k - 1 of
\* them banked, whatever the time of the call (so the next k calls return
\* true); the number of true results is never more than
\* floor((now - t0) / beat); and a call that returns false leaves it equal
\* to floor((now - t0) / beat).
C15_AccumulateBanks ==
  /\ []((Undisturbed /\ pacemaker.m_accumulated_unfetched_ticks) =>
          obs.trues <= (now - obs.t0) \div pacemaker.m_ns_per_beat)
  /\ [][(CallIsDue /\ Undisturbed /\ pacemaker.m_accumulated_unfetched_ticks) =>
          /\ Banked >= 1 => (obs'.result = "true" /\ Banked' = Banked - 1)
          /\ obs'.result = "false" =>
                obs'.trues = (now - obs.t0) \div pacemaker.m_ns_per_beat]_vars

\* C15 witness: three beats went by without a poll, and three calls made at
\* one reading of the clock have all returned true.
C15_Witness ==
  /\ Undisturbed
  /\ pacemaker.m_accumulated_unfetched_ticks
  /\ obs.trues = 3
  /\ obs.run = 3
  /\ obs.true_at = now
  /\ now - obs.t0 = 3 * pacemaker.m_ns_per_beat

\* C16: a running, non-accumulating Pacemaker with a positive target
\* frequency.  A call of IsDue() made when k >= 1 whole beats have elapsed
\* since the last beat returns true and moves the last beat on by those k
\* beats, to less than one beat before now; a call made before the next
\* beat-grid point (less than one beat after the last beat) returns false
\* and changes nothing; and with no Pause, Reset or SetTargetFPS no two
\* calls made at one reading of the clock both return true.
C16_DropsUnfetched ==
  /\ []((Undisturbed /\ ~pacemaker.m_accumulated_unfetched_ticks) =>
          obs.run <= 1)
  /\ [][(CallIsDue /\ Beating /\ ~pacemaker.m_accumulated_unfetched_ticks) =>
          /\ Banked >= 1 =>
                /\ obs'.result = "true"
                /\ pacemaker'.m_time_of_last_beat =
                     pacemaker.m_time_of_last_beat
                       + Banked * pacemaker.m_ns_per_beat
                /\ 0 <= Elapsed'
                /\ Elapsed' < pacemaker.m_ns_per_beat
          /\ Banked = 0 =>
                /\ obs'.result = "false"
                /\ pacemaker' = pacemaker]_vars

\* C16 witness: the first poll came two beats after construction and
\* returned the only true result; a further poll at the same reading of
\* the clock has returned false.
C16_Witness ==
  /\ Undisturbed
  /\ ~pacemaker.m_accumulated_unfetched_ticks
  /\ obs.trues = 1
  /\ obs.true_at >= obs.t0 + 2 * pacemaker.m_ns_per_beat
  /\ pacemaker.m_time_of_last_beat = obs.t0 + 2 * pacemaker.m_ns_per_beat
  /\ obs.result = "false"
  /\ obs.polled_at = obs.true_at

\* C17: for a running Pacemaker with a positive target frequency (and no
\* Pause, Reset or SetTargetFPS), a call of IsDue() made after an earlier
\* true result returns true if and only if at least one beat interval has
\* elapsed since the call that returned that latest true result.
C17_DueSinceLastTrue ==
  [][(CallIsDue /\ Beating /\ Undisturbed /\ obs.trues >= 1) =>
       (obs'.result = "true" <=>
          NanosecondsBetween(now, obs.true_at) >= pacemaker.m_ns_per_beat)]_vars

\* C18: a Pacemaker whose target frequency is negative returns true from
\* every call of IsDue(), in every state it can be in, paused or not.
C18_NegativeAlwaysTrue ==
  [][(CallIsDue /\ pacemaker.m_target_fps < 0) => obs'.result = "true"]_vars

\* C18, amended: a Pacemaker whose target frequency is negative returns
\* true from every call of IsDue() made while it is not paused, whatever
\* the clock, the last beat and the tick policy; a call made while it is
\* paused returns false; neither changes the Pacemaker.
C18_NegativeTrueUnlessPaused ==
  [][(CallIsDue /\ pacemaker.m_target_fps < 0) =>
       /\ obs'.result =
            (IF pacemaker.m_current_stage = "Paused" THEN "false" ELSE "true")
       /\ pacemaker' = pacemaker]_vars

\* C18 witness: a paused Pacemaker with a negative target frequency that
\* has returned true before and whose latest IsDue(), made after the time
\* of those true results, has returned false.
C18_Witness ==
  /\ pacemaker.m_target_fps < 0
  /\ pacemaker.m_current_stage = "Paused"
  /\ obs.trues >= 2
  /\ obs.result = "false"
  /\ obs.polled_at > obs.true_at

\* C19: a Pacemaker whose target frequency is 0 returns false from every
\* call of IsDue(), whatever the clock, the stage and the tick policy, and
\* the call changes nothing of the Pacemaker (the last-beat time included).
C19_ZeroAlwaysFalse ==
  [][(CallIsDue /\ pacemaker.m_target_fps = 0) =>
       /\ obs'.result = "false"
       /\ pacemaker' = pacemaker]_vars

\* C19 witness: a Pacemaker constructed with target frequency 0 and never
\* touched otherwise, whose latest IsDue() came four units of time after
\* its construction and returned false, the last beat being the
\* construction time still.
C19_Witness ==
  /\ pacemaker.m_target_fps = 0
  /\ obs.clean
  /\ obs.result = "false"
  /\ obs.polled_at >= obs.t0 + 4
  /\ obs.trues = 0
  /\ pacemaker.m_time_of_last_beat = obs.t0

\* C20: a call of IsDue() on a paused Pacemaker returns false and changes
\* nothing of it; Pause() and Resume() change the stage only (last-beat
\* time, beat interval and target frequency stay); and the first IsDue()
\* of a Pacemaker with a positive target frequency after Pause() ...
\* Resume(), no Reset or SetTargetFPS in between, returns true if and only
\* if at least one beat (the beat interval at the Pause()) has elapsed
\* since the last-beat time at the Pause().
C20_PauseKeepsBookkeeping ==
  /\ [][(CallIsDue /\ pacemaker.m_current_stage = "Paused") =>
          /\ obs'.result = "false"
          /\ pacemaker' = pacemaker]_vars
  /\ [][(CallPause \/ CallResume) =>
          /\ pacemaker'.m_time_of_last_beat = pacemaker.m_time_of_last_beat
          /\ pacemaker'.m_ns_per_beat = pacemaker.m_ns_per_beat
          /\ pacemaker'.m_target_fps = pacemaker.m_target_fps]_vars
  /\ [][(CallIsDue /\ Beating /\ obs.frozen # <<>>) =>
          (obs'.result = "true" <=>
             NanosecondsBetween(now, obs.frozen[1]) >= obs.frozen[2])]_vars

\* C20 witness: a paused Pacemaker with a positive target frequency that
\* has never returned true; more than a beat has elapsed since its last
\* beat, the IsDue() just made has returned false, and the last-beat time
\* and the beat interval are those of the Pause().
C20_Witness ==
  /\ pacemaker.m_target_fps > 0
  /\ pacemaker.m_current_stage = "Paused"
  /\ obs.frozen = <<pacemaker.m_time_of_last_beat, pacemaker.m_ns_per_beat>>
  /\ obs.trues = 0
  /\ obs.result = "false"
  /\ obs.polled_at = now
  /\ Elapsed > pacemaker.m_ns_per_beat

\* C35: for a Pacemaker with a positive target frequency on which only
\* IsDue() was called (no Pause, Reset or SetTargetFPS), in both tick
\* policies: the stored last beat is never later than the clock's reading
\* and lies a whole number of beat intervals after the construction time;
\* without accumulation, in the state a true result leaves, the last beat
\* is less than one beat interval in the past.
C35_LastBeatOnGrid ==
  Undisturbed =>
    /\ pacemaker.m_time_of_last_beat <= now
    /\ pacemaker.m_time_of_last_beat >= obs.t0
    /\ (pacemaker.m_time_of_last_beat - obs.t0) % pacemaker.m_ns_per_beat = 0
    /\ (/\ ~pacemaker.m_accumulated_unfetched_ticks
        /\ obs.result = "true"
        /\ obs.polled_at = now) => Elapsed < pacemaker.m_ns_per_beat

\* C35 witness: without accumulation and with a beat of 2 units, the first
\* true result came 5 units after the construction and moved the last beat
\* on by two beats at once, to 1 unit before the call.
C35_Witness ==
  /\ Undisturbed
  /\ ~pacemaker.m_accumulated_unfetched_ticks
  /\ pacemaker.m_ns_per_beat = 2
  /\ obs.trues = 1
  /\ obs.result = "true"
  /\ obs.polled_at = now
  /\ now = obs.t0 + 5
  /\ pacemaker.m_time_of_last_beat = obs.t0 + 4

\* ------------------------------------------------------------------ claims on concurrent IsDue() calls
\* The threads that hold m_IsDue__LOCK by their position in IsDue().
InCriticalSection == {c \in 1..MaxCallers : callers[c].loc \in {"now", "difference", "decide"}}

\* C21: with a positive target frequency and several threads calling IsDue()
\* on one Pacemaker, the true results of all callers together never number
\* more than the beat intervals elapsed since construction, at most one thread
\* at a time is between the lock and the return of IsDue(), and the last beat
\* moves only in the deciding step of the one thread that holds the lock.
C21_SerializedBeats ==
  /\ [](pacemaker.m_target_fps > 0 =>
          obs.trues * pacemaker.m_ns_per_beat <= NanosecondsBetween(now, obs.t0))
  /\ [](Cardinality(InCriticalSection) <= 1)
  /\ [][pacemaker'.m_time_of_last_beat # pacemaker.m_time_of_last_beat =>
          \E c \in 1..MaxCallers :
             /\ lock = c
             /\ InCriticalSection = {c}
             /\ callers[c].loc = "decide"
             /\ \A d \in 1..MaxCallers : d # c => callers'[d] = callers[d]]_vars

\* Two beats have been granted, and a thread is about to be granted a third
\* while the other waits for the lock.
C21_Witness ==
  /\ pacemaker.m_target_fps > 0
  /\ obs.trues = 2
  /\ \E c, d \in 1..MaxCallers :
       /\ callers[c].loc = "decide"
       /\ callers[c].difference >= pacemaker.m_ns_per_beat
       /\ callers[d].loc = "lock"

\* ------------------------------------------------------------------ claims on the disk monitor
\* The state of the source that the latest init() or update() found.
LatestFound == diskstats[Len(diskstats)]

\* The names and the sector sizes of the recorded devices, in order.
Recorded(d) ==
  [k \in 1..Len(d.m_disks) |-> <<d.m_disks[k].name, d.m_disks[k].bytes_per_sector>>]

\* C22: every update() of a monitor that has disks sets, for each recorded
\* device named in the statistics it reads, last_sectors_read to the former
\* current_sectors_read and current_sectors_read to the value read, and leaves
\* both fields of every other recorded device as they were; the recorded
\* devices and their sector sizes never change after init.
C22_UpdateShifts ==
  /\ [][(CallUpdate /\ disks_info.m_state = "HAVE_DISKS") =>
          \A k \in 1..Len(disks_info.m_disks) :
             LET old   == disks_info.m_disks[k]
                 new   == disks_info'.m_disks[k]
                 stats == LatestFound'.stats
             IN  IF LatestFound'.open /\ old.name \in DOMAIN stats
                   THEN /\ new.last_sectors_read = old.current_sectors_read
                        /\ new.current_sectors_read = stats[old.name]
                   ELSE /\ new.last_sectors_read = old.last_sectors_read
                        /\ new.current_sectors_read = old.current_sectors_read]_vars
  /\ [][Recorded(disks_info') = Recorded(disks_info)]_vars

\* The larger of two numbers, and the largest value of f over 1..n (0 for none).
RECURSIVE MaxOver(_, _)
MaxOver(f, n) == IF n = 0 THEN 0 ELSE Max(f[n], MaxOver(f, n - 1))

\* Every recorded device is listed in both of the two latest readings.
TwoReadings ==
  /\ Len(diskstats) = 2
  /\ \A r \in 1..2 :
       /\ diskstats[r].open
       /\ \A k \in 1..Len(disks_info.m_disks) :
            disks_info.m_disks[k].name \in DOMAIN diskstats[r].stats

\* C23: getFastestDiskRead() returns the largest bytes_per_sector *
\* (current_sectors_read - last_sectors_read) of the recorded devices, and
\* with two successive readings that differ by K sectors on a device, the
\* bytes that the busiest device read between them (K * bytes_per_sector),
\* also when a counter went down.
C23_FastestIsBytesRead ==
  [][CallGetFastestDiskRead =>
       /\ row'.actual_disk_speed =
            MaxOver([k \in 1..Len(disks_info.m_disks) |->
                       disks_info.m_disks[k].bytes_per_sector
                         * (disks_info.m_disks[k].current_sectors_read
                              - disks_info.m_disks[k].last_sectors_read)],
                    Len(disks_info.m_disks))
       /\ TwoReadings =>
            row'.actual_disk_speed =
              MaxOver([k \in 1..Len(disks_info.m_disks) |->
                         disks_info.m_disks[k].bytes_per_sector
                           * (diskstats[2].stats[disks_info.m_disks[k].name]
                                - diskstats[1].stats[disks_info.m_disks[k].name])],
                      Len(disks_info.m_disks))]_vars

\* init() discovered no device.
NoDeviceFound == disks_info.m_disks = <<>>

\* C24: a monitor whose init() discovered no device is in the unavailable
\* state for good: every update() leaves it as it is (and returns), and
\* every getFastestDiskRead() returns 0.
C24_UnavailableForever ==
  /\ [](NoDeviceFound => disks_info.m_state = "NO_DISKS_AVAILABLE")
  /\ [][disks_info.m_state = "NO_DISKS_AVAILABLE" =>
          disks_info'.m_state = "NO_DISKS_AVAILABLE"]_vars
  /\ [][(NoDeviceFound /\ CallUpdate) =>
          disks_info' = disks_info /\ pc' = "idle"]_vars
  /\ [][(NoDeviceFound /\ CallGetFastestDiskRead) =>
          row'.actual_disk_speed = 0]_vars

\* C25: a monitor that is unavailable writes its diagnostic at most once,
\* however many times update() is called.
C25_DiagnosticOnce == Count(cerr, NoDiskInfo) <= 1

\* C33: every call of update() returns, whatever state of the statistics
\* source it finds (the constructor's init() has returned in every state the
\* monitor starts from): the caller is back at its own code after the call,
\* never left inside update()'s read loop.
C33_UpdateReturns == [][CallUpdate => pc' = "idle"]_vars

\* ------------------------------------------------------------------ claims on the CPU monitor
\* The counters just read are not past the counters of the reading before.
Anomalous(before, s) ==
  \/ s.now <= before.now
  \/ s.tms_stime < before.tms_stime
  \/ s.tms_utime < before.tms_utime

\* C26: getTotalCPUUsage() returns a negative value exactly when the elapsed
\* ticks just read are not past those of the reading before or a busy counter
\* is below that of the reading before; otherwise it returns the system and
\* user ticks since that reading divided by the elapsed ticks since it.  In
\* both cases the three baselines become the counters just read.
C26_SentinelAndRebase ==
  [][CallGetTotalCPUUsage =>
       /\ row'.cpu_usage.num < 0 <=> Anomalous(times, times')
       /\ Anomalous(times, times') => row'.cpu_usage = Sentinel
       /\ ~Anomalous(times, times') =>
            /\ row'.cpu_usage.num = (times'.tms_stime - times.tms_stime)
                                      + (times'.tms_utime - times.tms_utime)
            /\ row'.cpu_usage.den = times'.now - times.now
       /\ cpu_info'.lastCPU = times'.now
       /\ cpu_info'.lastSysCPU = times'.tms_stime
       /\ cpu_info'.lastUserCPU = times'.tms_utime]_vars

\* A sample that went backwards gave the sentinel, and the sample after it
\* gives the usage since that sample: 2 busy ticks in 1 elapsed tick.
C26_Witness ==
  /\ row.before = Sentinel
  /\ row.cpu_usage = Quotient(2, 1)
  /\ times.now = 1

\* ------------------------------------------------------------------ claims on Start()
\* C34: Start() launches an execution thread only for a worker whose status
\* is INIT; a Start() on a RUNNING worker changes no field of it; and over
\* any sequence of Start() and Stop() calls at most one execution thread is
\* ever created for a worker.
C34_StartOnlyFromInit ==
  /\ [][\A k \in 1..Len(workers) :
          hist'[k].threads > hist[k].threads =>
            workers[k].m_status = "INIT"]_vars
  /\ [][\A k \in 1..Len(workers) :
          StartNoop(k) => workers' = workers]_vars
  /\ [](\A k \in 1..Len(workers) : hist[k].threads <= 1)

\* ------------------------------------------------------------------ claims on the progress counter
\* The indices of the assignment whose iteration of Loop is over: the
\* range-for stands at position it, the iterations before it have ended.
Ended(w) == IF w.thread = "null" THEN 0 ELSE w.it - 1

\* C30: at every moment, also while a file is being opened or read, m_done
\* (what getProgress() returns) is at most the number of assigned indices
\* whose operation has ended.
C30_DoneAfterIO ==
  \A k \in 1..Len(workers) : getProgress(workers[k]) <= Ended(workers[k])

\* ------------------------------------------------------------------ claims on main's configuration errors
\* The run was given a configuration main treats as an error.
ConfigError ==
  \/ ~options.infiles.set /\ ~options.outfiles.set
  \/ options.infiles.set /\ ~options.infiles.open
  \/ options.outfiles.set /\ ~options.outfiles.open
  \/ workload_split \notin {"separate", "overlap", "same"}

\* Start() has launched the thread of some worker.
Started == \E k \in 1..Len(workers) : workers[k].thread # "null"

\* C29: a run with neither list given, with a given list that cannot be
\* opened or with an unhandled workload-split choice never starts a worker
\* and never comes to the loop that starts them; it can stop nowhere but at
\* the return of EXIT_FAILURE, which is taken only for such an error, after
\* a message on std::cerr and with no worker started, and nothing of main
\* runs after it.
C29_ConfigErrorsFailBeforeStart ==
  /\ [](ConfigError => ~Started /\ pc # "start")
  /\ [](pc = "exit_failure" => ConfigError /\ ~Started /\ cerr # <<>>)
  /\ []((ConfigError /\ ~ENABLED StartupNext) => pc = "exit_failure")
  /\ [][pc # "exit_failure"]_vars

\* C29 witness: both lists were opened and read, file_indices was
\* generated, and the unhandled workload-split choice ended main with
\* EXIT_FAILURE before any worker existed.
C29_Witness ==
  /\ pc = "exit_failure"
  /\ cerr = <<UnhandledSplit>>
  /\ file_indices # <<>>
  /\ workers = <<>>

\* ------------------------------------------------------------------ claims on the warnings of a report row
\* The lines written between two states of a stream hold the warning.
Warned(before, after, warning) ==
  \E k \in (Len(before) + 1)..Len(after) : after[k] = warning

\* The workers that are not FINISHED.
Active == Cardinality({k \in 1..Len(workers) : ~isDone(workers[k])})

\* C27: a report row writes the cache warning if and only if the throughput
\* summed over all workers is greater than 1.1 times what
\* getFastestDiskRead() returns after the update() made for that row
\* (10 * sum > 11 * speed; the product is formed only for a speed below the
\* sum, the only case in which the answer can be yes).
C27_CacheWarningIff ==
  [][(MainReport /\ pc' = "loop") =>
       (Warned(cout, cout', CacheWarning)
          <=> /\ getFastestDiskRead(disks_info') < row'.throughput_sum
              /\ 10 * row'.throughput_sum
                   > 11 * getFastestDiskRead(disks_info'))]_vars

\* C27 witness: a row with 1127 bytes per second over all workers against a
\* disk that read two sectors of 512 bytes between the construction of the
\* monitor and the row's update(): 1127 > 1126.4, the warning is the last
\* line written.
C27_Witness ==
  /\ pc = "loop"
  /\ row # <<>>
  /\ row.throughput_sum = 1127
  /\ row.actual_disk_speed = MaxSectors * 512
  /\ cout # <<>>
  /\ cout[Len(cout)] = CacheWarning

\* C28: a report row writes the CPU warning if and only if the CPU usage
\* sampled for it is above 0.9 times the number of workers that are not
\* FINISHED at that row; the sentinel never brings the warning.
C28_CpuWarningPerActiveWorker ==
  [][MainReport =>
       (Warned(cout, cout', CpuWarning)
          <=> row'.cpu_usage.num * 10 > 9 * Active * row'.cpu_usage.den)]_vars

\* ------------------------------------------------------------------ claims on the percent column
\* C32: the percent-complete value of a report row lies between 0 and 100:
\* its divisor is not zero and the sum of the workers' m_done does not
\* exceed the divisor.
C32_PercentInRange ==
  DOMAIN row # {} =>
    /\ row.percent.den # 0
    /\ 0 <= row.percent.num
    /\ row.percent.num <= 100 * row.percent.den
    /\ row.done_sum <= row.percent.den

\* ------------------------------------------------------------------ claims on main's monitoring loop
\* The positions of the controller inside the monitoring loop.
MonitorPcs == {"loop", "poll", "report", "sleep"}

\* The range-for of Loop is through with every index of the assignment.
Exhausted(w) == w.thread # "null" /\ w.it > Len(w.m_indices)

\* C13: the controller leaves the monitoring loop only at its test and only
\* when every worker is FINISHED, and a test that finds a worker not
\* FINISHED goes on into the body; once every worker has exhausted its
\* assignment, main eventually leaves the loop and returns; and when main
\* has returned EXIT_SUCCESS every worker thread has been joined.
C13_MonitorUntilAllDone ==
  /\ [][(pc \in MonitorPcs /\ pc' \in {"start", "stop", "stop_join", "returned"}) =>
          /\ pc = "loop"
          /\ pc' = "stop"
          /\ \A k \in 1..Len(workers) : isDone(workers[k])]_vars
  /\ [][(MainTest /\ \E k \in 1..Len(workers) : ~isDone(workers[k])) =>
          pc' = "poll"]_vars
  /\ (\A k \in 1..Len(workers) : Exhausted(workers[k])) ~> (pc = "returned")
  /\ [](pc = "returned" =>
          \A k \in 1..Len(workers) : workers[k].thread = "joined")

\* C13 witness: main has returned after a run of two workers over two
\* files each and at least one row of the table; both threads are joined.
C13_Witness ==
  /\ pc = "returned"
  /\ Len(workers) = 2
  /\ \A k \in 1..2 : workers[k].thread = "joined" /\ workers[k].m_done = 2
  /\ Len(cout) >= 1

\* C14: the throughput history holds one sample for every report row
\* written so far, and when main has returned the final summary (robust
\* average and robust minimum of the history) has been written.
C14_HistoryAndSummary ==
  /\ Len(ThroughputHistory) = Count(cout, "row")
  /\ pc = "returned" => Count(cout, "summary") = 1

====
